---- MODULE Spec2Model ----
\* Verification model of the LabelMe annotation-conversion pipeline
\* (src-tauri/src/labelme_convert): format detection, per-shape validation,
\* deterministic splitting and the three output writers.
EXTENDS Integers, Sequences, FiniteSets, TLC

VARIABLES
    call,       \* pure-function harness: the function applied and its arguments
    ret,        \* pure-function harness: [done |-> FALSE] or [done |-> TRUE, val |-> ...]
    cfg,        \* ConversionConfig of the run (detected_input_format filled by convert)
    files,      \* the JSON files under input_dir, in walk order
    images,     \* the image files that exist on disk (resolved paths), in walk order
    pc,         \* position of convert(): "idle", "convert", "setup", "loop", "finalize", "done"
    idx,        \* number of JSON files the main loop has handled
    ctx,        \* ProcessingContext: stats, label_map, processed_images, skipped_labels, errors
    coco,       \* the three CocoDataset documents and the two id counters
    outfs,      \* output file system: directories created, images, label files, documents
    log,        \* history: one record per handled file (outcome and what it contributed)
    io,         \* history: number of JSON read operations performed so far
    result,     \* ConversionResult, or [returned |-> FALSE]
    scan        \* a scanner run: its workers, the two mutexes and what they guard,
                \* the events emitted; [phase |-> "idle"] when no scan is under way

vars == <<call, ret, cfg, files, images, pc, idx, ctx, coco, outfs, log, io, result, scan>>

runVars == <<cfg, files, images, pc, idx, ctx, coco, outfs, log, io, result, scan>>

----------------------------------------------------------------------------
\* Bounds of the model

MaxPointCount == 5      \* largest points.len() of a histogram key
MaxFreq == 4            \* largest frequency of one histogram key
MaxHash == 1299         \* largest path hash fed to determine_split directly
MaxFiles == 2           \* JSON files in the input directory
MaxShapes == 3          \* shapes in a list handed to filter_shapes directly
MaxSampled == 3         \* JSON files in a list handed to the analysis directly
MaxOver == 2            \* events recorded beyond a cap of the statistics

----------------------------------------------------------------------------
\* Small helpers

Min(a, b) == IF a < b THEN a ELSE b

Max(a, b) == IF a > b THEN a ELSE b

RECURSIVE SumOver(_, _)
SumOver(f, S) ==
    IF S = {} THEN 0
    ELSE LET k == CHOOSE x \in S : TRUE IN f[k] + SumOver(f, S \ {k})

Take(s, n) == SubSeq(s, 1, Min(n, Len(s)))

Ok(v) == [ok |-> TRUE, val |-> v]

Err(r) == [ok |-> FALSE, reason |-> r]

----------------------------------------------------------------------------
\* types.rs

InputAnnotationFormat == {"Bbox2Point", "Bbox4Point", "Polygon", "Unknown"}

EmptyPoints == [kind |-> "EmptyPoints"]

ZeroArea == [kind |-> "ZeroArea"]

InsufficientPoints == [kind |-> "InsufficientPoints"]

PointsCountMismatch(fmt, n) ==
    [kind |-> "PointsCountMismatch", expected_format |-> fmt, actual_points |-> n]

----------------------------------------------------------------------------
\* coco.rs: validate_shape_points

validate_shape_points_off_by_one(shape, input_format) ==
    LET points_count == Len(shape.points) IN
    IF points_count = 0 THEN Err(EmptyPoints)
    ELSE CASE input_format = "Bbox2Point" ->
                IF points_count # 2 THEN Err(PointsCountMismatch(input_format, points_count))
                ELSE Ok("unit")
           [] input_format = "Bbox4Point" ->
                IF points_count # 4 THEN Err(PointsCountMismatch(input_format, points_count))
                ELSE Ok("unit")
           [] input_format = "Polygon" ->
                IF points_count <= 3 THEN Err(PointsCountMismatch(input_format, points_count))
                ELSE Ok("unit")
           [] OTHER ->
                IF points_count < 2 THEN Err(InsufficientPoints)
                ELSE Ok("unit")

validate_shape_points(shape, input_format) ==
    LET points_count == Len(shape.points) IN
    IF points_count = 0 THEN Err(EmptyPoints)
    ELSE CASE input_format = "Bbox2Point" ->
                IF points_count # 2 THEN Err(PointsCountMismatch(input_format, points_count))
                ELSE Ok("unit")
           [] input_format = "Bbox4Point" ->
                IF points_count # 4 THEN Err(PointsCountMismatch(input_format, points_count))
                ELSE Ok("unit")
           [] input_format = "Polygon" ->
                IF points_count < 3 THEN Err(PointsCountMismatch(input_format, points_count))
                ELSE Ok("unit")
           [] OTHER ->
                IF points_count < 2 THEN Err(InsufficientPoints)
                ELSE Ok("unit")

----------------------------------------------------------------------------
\* Numbers.  Pixel coordinates (f64 in the source) are held as integers in
\* thousandths of a pixel; ratios are held as pairs <<numerator, denominator>>.

Unit == 10 * 100

Abs(x) == IF x < 0 THEN -x ELSE x

Clamp(x, hi) == Min(Max(x, 0), hi)

RatGE(r, t) == r[1] * t[2] >= t[1] * r[2]

RatGT(r, t) == r[1] * t[2] > t[1] * r[2]

RatMax(r, t) == IF RatGE(r, t) THEN r ELSE t

None == [some |-> FALSE]

Some(v) == [some |-> TRUE, val |-> v]

MinOf(S) == CHOOSE m \in S : \A x \in S : m <= x

MaxOf(S) == CHOOSE m \in S : \A x \in S : m >= x

Range(s) == {s[i] : i \in DOMAIN s}

----------------------------------------------------------------------------
\* conversion.rs: geometry

get_bounding_coords(points) ==
    [min_x |-> MinOf({p[1] : p \in Range(points)}),
     max_x |-> MaxOf({p[1] : p \in Range(points)}),
     min_y |-> MinOf({p[2] : p \in Range(points)}),
     max_y |-> MaxOf({p[2] : p \in Range(points)})]

calculate_bbox(shape, image_width, image_height) ==
    IF shape.points = <<>> THEN None
    ELSE LET b == get_bounding_coords(shape.points)
             min_x == Clamp(b.min_x, image_width)
             max_x == Clamp(b.max_x, image_width)
             min_y == Clamp(b.min_y, image_height)
             max_y == Clamp(b.max_y, image_height)
             width == max_x - min_x
             height == max_y - min_y
         IN IF width <= 0 \/ height <= 0 THEN None
            ELSE Some(<< <<min_x + max_x, 2 * image_width>>,
                         <<min_y + max_y, 2 * image_height>>,
                         <<width, image_width>>,
                         <<height, image_height>> >>)

normalize_polygon(points, image_width, image_height) ==
    [i \in DOMAIN points |->
        << <<Clamp(points[i][1], image_width), image_width>>,
           <<Clamp(points[i][2], image_height), image_height>> >>]

rectangle_to_polygon_unexpanded(points) == points

rectangle_to_polygon(points) ==
    IF Len(points) # 2 THEN points
    ELSE LET x1 == points[1][1]
             y1 == points[1][2]
             x2 == points[2][1]
             y2 == points[2][2]
         IN << <<x1, y1>>, <<x2, y1>>, <<x2, y2>>, <<x1, y2>> >>

\* cos and sin of i * 30 degrees, in thousandths
CosTable == <<1000, 866, 500, 0, -500, -866, -1000, -866, -500, 0, 500, 866>>

SinTable == <<0, 500, 866, 1000, 866, 500, 0, -500, -866, -1000, -866, -500>>

ScaleBy(r, t) == IF r * t >= 0 THEN (r * t) \div 1000 ELSE -((-(r * t)) \div 1000)

circle_to_polygon(center, radius, num_points) ==
    [i \in 1..num_points |->
        <<center[1] + ScaleBy(radius, CosTable[((i - 1) * 12) \div num_points + 1]),
          center[2] + ScaleBy(radius, SinTable[((i - 1) * 12) \div num_points + 1])>>]

RECURSIVE Shoelace(_, _)
Shoelace(points, i) ==
    IF i > Len(points) THEN 0
    ELSE LET j == (i % Len(points)) + 1
         IN points[i][1] * points[j][2] - points[j][1] * points[i][2]
            + Shoelace(points, i + 1)

\* the area as <<numerator, denominator>> in square pixels
calculate_polygon_area(points) ==
    IF Len(points) < 3 THEN <<0, 1>>
    ELSE <<Abs(Shoelace(points, 1)), 2 * Unit * Unit>>

calculate_coco_bbox(points) ==
    IF points = <<>> THEN <<0, 0, 0, 0>>
    ELSE LET b == get_bounding_coords(points)
         IN <<b.min_x, b.min_y, b.max_x - b.min_x, b.max_y - b.min_y>>

RECURSIVE flatten_polygon(_)
flatten_polygon(points) ==
    IF points = <<>> THEN <<>>
    ELSE <<points[1][1], points[1][2]>> \o flatten_polygon(Tail(points))

\* radius = sqrt(dx^2 + dy^2), to the thousandth of a pixel
Hypot(dx, dy) ==
    LET s == dx * dx + dy * dy
    IN CHOOSE r \in 0..(Abs(dx) + Abs(dy)) : r * r <= s /\ (r + 1) * (r + 1) > s

----------------------------------------------------------------------------
\* conversion.rs: shape_to_yolo_line.  A line is its class id and its numbers.

shape_to_yolo_line_keeps_zero_area(shape, class_id, image_width, image_height, format, input_format) ==
    LET v == validate_shape_points(shape, input_format) IN
    IF ~v.ok THEN v
    ELSE Ok([class_id |-> class_id,
             nums |-> flatten_polygon(normalize_polygon(shape.points, image_width,
                                                        image_height))])

shape_to_yolo_line(shape, class_id, image_width, image_height, format, input_format) ==
    LET v == validate_shape_points(shape, input_format) IN
    IF ~v.ok THEN v
    ELSE IF format = "Bbox"
         THEN LET b == calculate_bbox(shape, image_width, image_height)
              IN IF ~b.some
                 THEN (IF shape.points = <<>> THEN Err(EmptyPoints) ELSE Err(ZeroArea))
                 ELSE Ok([class_id |-> class_id, nums |-> b.val])
         ELSE IF input_format = "Bbox2Point"
              THEN LET expanded == rectangle_to_polygon(shape.points)
                       normalized == normalize_polygon(expanded, image_width, image_height)
                   IN Ok([class_id |-> class_id,
                          nums |-> flatten_polygon(normalized)])
              ELSE LET normalized == normalize_polygon(shape.points, image_width, image_height)
                   IN Ok([class_id |-> class_id,
                          nums |-> flatten_polygon(normalized)])

----------------------------------------------------------------------------
\* coco.rs: shape_to_coco_annotation

shape_to_coco_annotation_keeps_zero_area(shape, image_id, category_id, annotation_id, config) ==
    LET points ==
            CASE shape.shape_type = "polygon" ->
                    LET pts == shape.points IN
                    IF Len(pts) >= 4
                       /\ Abs(pts[1][1] - pts[Len(pts)][1]) < 1
                       /\ Abs(pts[1][2] - pts[Len(pts)][2]) < 1
                    THEN Some(SubSeq(pts, 1, Len(pts) - 1))
                    ELSE Some(pts)
              [] shape.shape_type = "rectangle" ->
                    IF Len(shape.points) < 2 THEN None
                    ELSE Some(rectangle_to_polygon(shape.points))
              [] shape.shape_type = "circle" ->
                    IF Len(shape.points) < 2 THEN None
                    ELSE LET c == shape.points[1]
                             p == shape.points[2]
                             radius == Hypot(c[1] - p[1], c[2] - p[2])
                         IN Some(circle_to_polygon(c, radius, 12))
              [] OTHER -> None
    IN IF ~points.some THEN None
       ELSE IF Len(points.val) < 3 THEN None
       ELSE LET area == calculate_polygon_area(points.val) IN
            IF FALSE THEN None
            ELSE Some([id |-> annotation_id,
                       image_id |-> image_id,
                       category_id |-> category_id,
                       bbox |-> calculate_coco_bbox(points.val),
                       area |-> area,
                       iscrowd |-> 0,
                       segmentation |->
                           IF config.segmentation_mode = "Polygon"
                           THEN Some(<<flatten_polygon(points.val)>>)
                           ELSE None])

shape_to_coco_annotation(shape, image_id, category_id, annotation_id, config) ==
    LET points ==
            CASE shape.shape_type = "polygon" ->
                    LET pts == shape.points IN
                    IF Len(pts) >= 4
                       /\ Abs(pts[1][1] - pts[Len(pts)][1]) < 1
                       /\ Abs(pts[1][2] - pts[Len(pts)][2]) < 1
                    THEN Some(SubSeq(pts, 1, Len(pts) - 1))
                    ELSE Some(pts)
              [] shape.shape_type = "rectangle" ->
                    IF Len(shape.points) < 2 THEN None
                    ELSE Some(rectangle_to_polygon(shape.points))
              [] shape.shape_type = "circle" ->
                    IF Len(shape.points) < 2 THEN None
                    ELSE LET c == shape.points[1]
                             p == shape.points[2]
                             radius == Hypot(c[1] - p[1], c[2] - p[2])
                         IN Some(circle_to_polygon(c, radius, 12))
              [] OTHER -> None
    IN IF ~points.some THEN None
       ELSE IF Len(points.val) < 3 THEN None
       ELSE LET area == calculate_polygon_area(points.val) IN
            IF area[1] <= 0 THEN None
            ELSE Some([id |-> annotation_id,
                       image_id |-> image_id,
                       category_id |-> category_id,
                       bbox |-> calculate_coco_bbox(points.val),
                       area |-> area,
                       iscrowd |-> 0,
                       segmentation |->
                           IF config.segmentation_mode = "Polygon"
                           THEN Some(<<flatten_polygon(points.val)>>)
                           ELSE None])

----------------------------------------------------------------------------
\* detection.rs

DefaultAnalysisConfig ==
    [max_sample_files |-> 20, max_sample_annotations |-> 100,
     confidence_threshold |-> <<4, 5>>]

DefaultAnalysis ==
    [input_format |-> "Unknown", total_files |-> 0, sample_files |-> 0,
     sample_annotations |-> 0, confidence |-> <<0, 1>>,
     points_distribution |-> <<>>, format_description |-> "unknown format"]

determine_format_strict_threshold(total_sampled, count_2_points, count_4_points, count_3_plus_points, points_distribution, threshold) ==
    IF total_sampled = 0
    THEN [format |-> "Unknown", confidence |-> <<0, 1>>, description |-> "no annotations"]
    ELSE LET ratio_2_points == <<count_2_points, total_sampled>>
             ratio_4_points == <<count_4_points, total_sampled>>
             ratio_3_plus_points == <<count_3_plus_points, total_sampled>>
         IN IF RatGT(ratio_2_points, threshold)
            THEN [format |-> "Bbox2Point", confidence |-> ratio_2_points,
                  description |-> "2-point bbox"]
            ELSE IF RatGT(ratio_4_points, threshold)
            THEN [format |-> "Bbox4Point", confidence |-> ratio_4_points,
                  description |-> "4-point bbox"]
            ELSE IF RatGT(ratio_3_plus_points, threshold)
            THEN [format |-> "Polygon", confidence |-> ratio_3_plus_points,
                  description |-> "polygon"]
            ELSE [format |-> "Unknown",
                  confidence |-> RatMax(RatMax(ratio_2_points, ratio_4_points),
                                        ratio_3_plus_points),
                  description |-> "mixed"]

determine_format_two_counts_as_one(total_sampled, count_2_points, count_4_points, count_3_plus_points, points_distribution, threshold) ==
    IF total_sampled = 0
    THEN [format |-> "Unknown", confidence |-> <<0, 1>>, description |-> "no annotations"]
    ELSE LET ratio_2_points == <<count_2_points, total_sampled>>
             ratio_4_points == <<count_4_points, total_sampled>>
             ratio_3_plus_points == <<count_3_plus_points, total_sampled>>
         IN IF RatGE(ratio_2_points, threshold)
            THEN [format |-> "Bbox2Point", confidence |-> ratio_2_points,
                  description |-> "2-point bbox"]
            ELSE IF RatGE(ratio_4_points, threshold)
            THEN [format |-> "Bbox4Point", confidence |-> ratio_4_points,
                  description |-> "4-point bbox"]
            ELSE IF RatGE(ratio_3_plus_points, threshold)
            THEN IF RatGE(ratio_4_points, threshold)
                 THEN [format |-> "Bbox4Point", confidence |-> ratio_4_points,
                       description |-> "4-point bbox"]
                 ELSE LET unique_point_counts ==
                              {k \in DOMAIN points_distribution :
                                  k >= 3 /\ points_distribution[k] > 0}
                      IN IF Cardinality(unique_point_counts) > 2
                         THEN [format |-> "Polygon", confidence |-> ratio_3_plus_points,
                               description |-> "polygon, variable points"]
                         ELSE IF RatGT(ratio_4_points, <<1, 2>>)
                         THEN [format |-> "Bbox4Point", confidence |-> ratio_4_points,
                               description |-> "4-point bbox"]
                         ELSE [format |-> "Polygon", confidence |-> ratio_3_plus_points,
                               description |-> "polygon"]
            ELSE [format |-> "Unknown",
                  confidence |-> RatMax(RatMax(ratio_2_points, ratio_4_points),
                                        ratio_3_plus_points),
                  description |-> "mixed"]

determine_format_with_confidence(total_sampled, count_2_points, count_4_points, count_3_plus_points, points_distribution, threshold) ==
    IF total_sampled = 0
    THEN [format |-> "Unknown", confidence |-> <<0, 1>>, description |-> "no annotations"]
    ELSE LET ratio_2_points == <<count_2_points, total_sampled>>
             ratio_4_points == <<count_4_points, total_sampled>>
             ratio_3_plus_points == <<count_3_plus_points, total_sampled>>
         IN IF RatGE(ratio_2_points, threshold)
            THEN [format |-> "Bbox2Point", confidence |-> ratio_2_points,
                  description |-> "2-point bbox"]
            ELSE IF RatGE(ratio_4_points, threshold)
            THEN [format |-> "Bbox4Point", confidence |-> ratio_4_points,
                  description |-> "4-point bbox"]
            ELSE IF RatGE(ratio_3_plus_points, threshold)
            THEN IF RatGE(ratio_4_points, threshold)
                 THEN [format |-> "Bbox4Point", confidence |-> ratio_4_points,
                       description |-> "4-point bbox"]
                 ELSE LET unique_point_counts ==
                              {k \in DOMAIN points_distribution :
                                  k >= 3 /\ points_distribution[k] > 0}
                      IN IF Cardinality(unique_point_counts) > 1
                         THEN [format |-> "Polygon", confidence |-> ratio_3_plus_points,
                               description |-> "polygon, variable points"]
                         ELSE IF RatGT(ratio_4_points, <<1, 2>>)
                         THEN [format |-> "Bbox4Point", confidence |-> ratio_4_points,
                               description |-> "4-point bbox"]
                         ELSE [format |-> "Polygon", confidence |-> ratio_3_plus_points,
                               description |-> "polygon"]
            ELSE [format |-> "Unknown",
                  confidence |-> RatMax(RatMax(ratio_2_points, ratio_4_points),
                                        ratio_3_plus_points),
                  description |-> "mixed"]

\* HashMap<usize, usize> of points.len() over the first n shapes
RECURSIVE CountPoints(_, _)
CountPoints(shapes, n) ==
    IF n = 0 THEN <<>>
    ELSE LET d == CountPoints(shapes, n - 1)
             k == Len(shapes[n].points)
         IN IF k \in DOMAIN d
            THEN [d EXCEPT ![k] = @ + 1]
            ELSE [x \in DOMAIN d \cup {k} |-> IF x = k THEN 1 ELSE d[x]]

analyze_shapes(shapes, total_files, sample_files, config) ==
    IF shapes = <<>>
    THEN [DefaultAnalysis EXCEPT !.total_files = total_files,
                                 !.sample_files = sample_files,
                                 !.format_description = "no annotations found"]
    ELSE LET sample_annotations == Min(Len(shapes), config.max_sample_annotations)
             points_distribution == CountPoints(shapes, sample_annotations)
             count_2_points ==
                 IF 2 \in DOMAIN points_distribution THEN points_distribution[2] ELSE 0
             count_4_points ==
                 IF 4 \in DOMAIN points_distribution THEN points_distribution[4] ELSE 0
             count_3_plus_points ==
                 SumOver(points_distribution, {k \in DOMAIN points_distribution : k >= 3})
             d == determine_format_with_confidence(
                      sample_annotations, count_2_points, count_4_points,
                      count_3_plus_points, points_distribution,
                      config.confidence_threshold)
         IN [input_format |-> d.format,
             total_files |-> total_files,
             sample_files |-> sample_files,
             sample_annotations |-> sample_annotations,
             confidence |-> d.confidence,
             points_distribution |-> points_distribution,
             format_description |-> d.description]

detect_input_format(shapes) ==
    IF shapes = <<>> THEN "Unknown"
    ELSE analyze_shapes(shapes, 0, 0, DefaultAnalysisConfig).input_format

----------------------------------------------------------------------------
\* pipeline.rs: determine_split.  val_size and test_size are held in
\* thousandths; ratio < val_size is residue < val_size * 1000.

determine_split_seeded(path_hash, val_size, test_size) ==
    LET ratio == (path_hash + cfg.seed * 10) % 1000 IN
    IF ratio < val_size THEN "Val"
    ELSE IF ratio < val_size + test_size THEN "Test"
    ELSE "Train"

determine_split_inclusive(path_hash, val_size, test_size) ==
    LET ratio == path_hash % 1000 IN
    IF ratio <= val_size THEN "Val"
    ELSE IF ratio <= val_size + test_size THEN "Test"
    ELSE "Train"

determine_split(path_hash, val_size, test_size) ==
    LET ratio == path_hash % 1000 IN
    IF ratio < val_size THEN "Val"
    ELSE IF ratio < val_size + test_size THEN "Test"
    ELSE "Train"

----------------------------------------------------------------------------
\* io.rs and pipeline.rs helpers

\* resolve_image_path: an absolute imagePath stands for itself, a relative one
\* is joined to the directory of the JSON file
resolve_image_path(json_path, image_path) ==
    IF image_path.absolute
    THEN [dir |-> "/", stem |-> image_path.stem, ext |-> image_path.ext]
    ELSE [dir |-> json_path.dir, stem |-> image_path.stem, ext |-> image_path.ext]

\* DefaultHasher::new() has fixed keys, so hash_string is one fixed function of
\* the path string; its values on the paths of the model are tabulated here.
hash_string(s) ==
    (IF s.dir = "/" THEN 7000 ELSE IF s.dir = "a" THEN 1000 ELSE 4000)
    + (IF s.stem = "x" THEN 100 ELSE IF s.stem = "y" THEN 250 ELSE 500)
    + (IF s.ext = "jpg" THEN 0 ELSE 49)

has_test_split(config) == config.test_size > 0

validate(config) ==
    IF ~config.input_exists THEN Err("Input directory does not exist")
    ELSE IF config.val_size < 0 \/ config.val_size > 1000
    THEN Err("val_size must be between 0.0 and 1.0")
    ELSE IF config.test_size < 0 \/ config.test_size > 1000
    THEN Err("test_size must be between 0.0 and 1.0")
    ELSE IF config.val_size + config.test_size > 1000
    THEN Err("val_size + test_size must not exceed 1.0")
    ELSE Ok("unit")

ImagesDir(split) == [kind |-> "images", split |-> split]

LabelsDir(split) == [kind |-> "labels", split |-> split]

setup_yolo_directories_always_test(config) ==
    {LabelsDir("train"), LabelsDir("val"), ImagesDir("train"), ImagesDir("val"),
     LabelsDir("test"), ImagesDir("test")}

setup_yolo_directories(config) ==
    {LabelsDir("train"), LabelsDir("val"), ImagesDir("train"), ImagesDir("val")}
    \cup (IF has_test_split(config) THEN {LabelsDir("test"), ImagesDir("test")} ELSE {})

setup_coco_directories(config) ==
    {[kind |-> "annotations", split |-> ""], ImagesDir("train"), ImagesDir("val")}
    \cup (IF has_test_split(config) THEN {ImagesDir("test")} ELSE {})

setup_labelme_directories(config) == {[kind |-> "output", split |-> ""]}

SplitStr(split) ==
    CASE split = "Train" -> "train" [] split = "Val" -> "val"
      [] split = "Test" -> "test" [] OTHER -> ""

\* get_split_dirs / get_split_images_dir: the test directories fall back to train
get_split_dirs(dirs, split) ==
    CASE split = "Train" -> [labels |-> LabelsDir("train"), images |-> ImagesDir("train")]
      [] split = "Val" -> [labels |-> LabelsDir("val"), images |-> ImagesDir("val")]
      [] OTHER ->
            [labels |-> IF LabelsDir("test") \in dirs
                        THEN LabelsDir("test") ELSE LabelsDir("train"),
             images |-> IF ImagesDir("test") \in dirs
                        THEN ImagesDir("test") ELSE ImagesDir("train")]

\* generate_unique_path: the first numeric suffix not yet taken (0 = no suffix)
generate_unique_path(fs, dir, stem, ext) ==
    CHOOSE n \in 1..(Cardinality(fs.images) + 1) :
        /\ ~\E i \in fs.images : i.dir = dir /\ i.stem = stem /\ i.ext = ext /\ i.n = n
        /\ \A m \in 1..(n - 1) :
              \E i \in fs.images : i.dir = dir /\ i.stem = stem /\ i.ext = ext /\ i.n = m

\* copy_image: Err when the copy fails, else the file system with the copy
copy_image(fs, src, dest_dir, copy_ok) ==
    IF ~copy_ok \/ dest_dir \notin fs.dirs THEN Err("Failed to copy image")
    ELSE LET taken == \E i \in fs.images :
                         i.dir = dest_dir /\ i.stem = src.stem /\ i.ext = src.ext /\ i.n = 0
             n == IF taken THEN generate_unique_path(fs, dest_dir, src.stem, src.ext) ELSE 0
         IN Ok([fs EXCEPT !.images = @ \cup
                   {[dir |-> dest_dir, stem |-> src.stem, ext |-> src.ext, n |-> n,
                     src |-> src]}])

\* extract_embedded_image: base64 decode, then fs::write (which overwrites)
extract_embedded_image(fs, image_data, dest_dir, stem, ext, write_ok) ==
    IF image_data = "bad_base64" THEN Err("Failed to decode base64")
    ELSE IF ~write_ok \/ dest_dir \notin fs.dirs THEN Err("Failed to write image")
    ELSE Ok([fs EXCEPT !.images =
                {i \in @ : ~(i.dir = dest_dir /\ i.stem = stem /\ i.ext = ext /\ i.n = 0)}
                \cup {[dir |-> dest_dir, stem |-> stem, ext |-> ext, n |-> 0,
                       src |-> [dir |-> "embedded", stem |-> stem, ext |-> ext]]}])

\* write_file of a label file: File::create truncates an existing file
write_label_file(fs, dir, stem, lines, by) ==
    [fs EXCEPT !.labels =
        {l \in @ : ~(l.dir = dir /\ l.stem = stem)}
        \cup {[dir |-> dir, stem |-> stem, lines |-> lines, by |-> by]}]

\* the incremental label policy: ids in first-encounter order
RECURSIVE add_labels(_, _, _)
add_labels(label_map, shapes, n) ==
    IF n = 0 THEN label_map
    ELSE LET m == add_labels(label_map, shapes, n - 1)
             label == shapes[n].label
         IN IF label \in DOMAIN m THEN m
            ELSE [l \in DOMAIN m \cup {label} |->
                     IF l = label THEN Cardinality(DOMAIN m) ELSE m[l]]

\* label_map.insert(label, id) for (id, label) in label_list.iter().enumerate()
RECURSIVE labels_from_list(_, _)
labels_from_list(label_list, n) ==
    IF n = 0 THEN <<>>
    ELSE LET m == labels_from_list(label_list, n - 1)
             label == label_list[n]
         IN [l \in DOMAIN m \cup {label} |-> IF l = label THEN n - 1 ELSE m[l]]

\* the labels of the model, in alphabetical order (String's Ord)
SortedLabels == <<"bird", "cat", "dog">>

Rank(label) == CHOOSE i \in DOMAIN SortedLabels : SortedLabels[i] = label

\* gather_labels: every label of every readable file, sorted, numbered from 0
gather_labels(json_files, label_map) ==
    LET all_labels == UNION {{f.shapes[i].label : i \in DOMAIN f.shapes} :
                                f \in {g \in Range(json_files) : g.readable}}
        id(label) == Cardinality({l \in all_labels : Rank(l) < Rank(label)})
    IN [l \in DOMAIN label_map \cup all_labels |->
           IF l \in all_labels THEN id(l) ELSE label_map[l]]

InvalidAnnotation(file, shape, reason) ==
    [file |-> file, label |-> shape.label, reason |-> reason,
     shape_type |-> shape.shape_type, points_count |-> Len(shape.points)]

----------------------------------------------------------------------------
\* yolo.rs: process_single_file

\* the loop over the shapes of one file (yolo.rs 215-248), first n shapes
RECURSIVE yolo_shapes(_, _, _, _, _, _)
yolo_shapes(annotation, n, label_map, config, input_format, file_name) ==
    IF n = 0
    THEN [yolo_lines |-> <<>>, annotation_count |-> 0, skipped_count |-> 0,
          invalid_annotations |-> <<>>, skipped_labels |-> {}]
    ELSE LET acc == yolo_shapes(annotation, n - 1, label_map, config, input_format, file_name)
             shape == annotation.shapes[n]
         IN IF shape.label \in DOMAIN label_map
            THEN LET r == shape_to_yolo_line(shape, label_map[shape.label],
                                             annotation.image_width, annotation.image_height,
                                             config.annotation_format, input_format)
                 IN IF r.ok
                    THEN [acc EXCEPT !.yolo_lines = Append(@, r.val),
                                     !.annotation_count = @ + 1]
                    ELSE [acc EXCEPT !.invalid_annotations =
                                         Append(@, InvalidAnnotation(file_name, shape, r.reason)),
                                     !.skipped_count = @ + 1]
            ELSE [acc EXCEPT !.skipped_labels = @ \cup {shape.label},
                             !.skipped_count = @ + 1]

\* The value returned and the state left behind: label_map, processed_images,
\* skipped_labels and the output file system are changed in place, also when
\* the function returns Err.  fault names the IO operation the environment
\* makes fail: "none", "copy" (image copy or extraction) or "write".
Outcome(res, fs, label_map, processed_images, skipped_labels) ==
    [res |-> res, fs |-> fs, label_map |-> label_map,
     processed_images |-> processed_images, skipped_labels |-> skipped_labels]

\* yolo.rs 203-255: the shapes are converted and the label file is written
yolo_write_labels(f, fs, fs1, label_map, processed_images, skipped_labels, fault, labels_dir, acc) ==
    IF fault = "write" \/ labels_dir \notin fs.dirs
    THEN Outcome(Err("Failed to write label file"), fs1, label_map, processed_images,
                 skipped_labels \cup acc.skipped_labels)
    ELSE Outcome(Ok([annotation_count |-> acc.annotation_count,
                     skipped_count |-> acc.skipped_count,
                     invalid_annotations |-> acc.invalid_annotations]),
                 write_label_file(fs1, labels_dir,
                                  resolve_image_path(f.json, f.image_path).stem,
                                  acc.yolo_lines, f.json),
                 label_map, processed_images, skipped_labels \cup acc.skipped_labels)

\* yolo.rs 181-201: the image is extracted or copied, or the file fails
yolo_after_image(f, config, fs, label_map, processed_images, skipped_labels, input_format, fault, labels_dir, img) ==
    IF ~img.ok THEN Outcome(img, fs, label_map, processed_images, skipped_labels)
    ELSE yolo_write_labels(f, fs, img.val, label_map, processed_images, skipped_labels,
                           fault, labels_dir,
                           yolo_shapes(f, Len(f.shapes), label_map, config, input_format,
                                       f.json.stem))

\* yolo.rs 164-201 once the split of the image is known
yolo_in_split(f, config, fs, label_map, processed_images, skipped_labels, input_format, fault, split, d) ==
    yolo_after_image(
        f, config, fs, label_map, processed_images, skipped_labels, input_format, fault,
        d.labels,
        IF f.image_data # "none"
        THEN extract_embedded_image(fs, f.image_data, d.images,
                                    resolve_image_path(f.json, f.image_path).stem,
                                    resolve_image_path(f.json, f.image_path).ext,
                                    fault # "copy")
        ELSE IF resolve_image_path(f.json, f.image_path) \in Range(images)
        THEN copy_image(fs, resolve_image_path(f.json, f.image_path),
                        ImagesDir(SplitStr(split)), fault # "copy")
        ELSE Err("Image file not found"))

\* the split of an image key: hash_string, then determine_split
split_of(image_key, config) ==
    determine_split(hash_string(image_key), config.val_size, config.test_size)

process_single_file(f, config, fs, label_map, processed_images, skipped_labels, input_format, fault) ==
    IF ~f.readable
    THEN Outcome(Err("Failed to open or parse"), fs, label_map, processed_images,
                 skipped_labels)
    ELSE yolo_in_split(
             f, config, fs,
             IF config.label_list = <<>> /\ ~config.deterministic_labels
             THEN add_labels(label_map, f.shapes, Len(f.shapes))
             ELSE label_map,
             processed_images \cup {resolve_image_path(f.json, f.image_path)},
             skipped_labels, input_format, fault,
             split_of(resolve_image_path(f.json, f.image_path), config),
             get_split_dirs(fs.dirs,
                            split_of(resolve_image_path(f.json, f.image_path), config)))

----------------------------------------------------------------------------
\* coco.rs: process_single_file_coco

\* the loop over the shapes of one file (coco.rs 362-392), first n shapes
RECURSIVE coco_shapes(_, _, _, _, _, _, _, _)
coco_shapes(annotation, n, label_map, config, input_format, image_id, annotation_id_counter, json_file_name) ==
    IF n = 0
    THEN [coco_annotations |-> <<>>, skipped_count |-> 0, invalid_annotations |-> <<>>,
          skipped_labels |-> {}, annotation_id_counter |-> annotation_id_counter]
    ELSE LET acc == coco_shapes(annotation, n - 1, label_map, config, input_format,
                                image_id, annotation_id_counter, json_file_name)
             shape == annotation.shapes[n]
         IN IF shape.label \in DOMAIN label_map
            THEN LET v == validate_shape_points(shape, input_format) IN
                 IF ~v.ok
                 THEN [acc EXCEPT !.invalid_annotations =
                                      Append(@, InvalidAnnotation(json_file_name, shape,
                                                                  v.reason)),
                                  !.skipped_count = @ + 1]
                 ELSE LET a == shape_to_coco_annotation(shape, image_id,
                                                        label_map[shape.label] + 1,
                                                        acc.annotation_id_counter, config)
                      IN IF a.some
                         THEN [acc EXCEPT !.coco_annotations = Append(@, a.val),
                                          !.annotation_id_counter = @ + 1]
                         ELSE acc
            ELSE [acc EXCEPT !.skipped_labels = @ \cup {shape.label},
                             !.skipped_count = @ + 1]

CocoOutcome(res, fs, label_map, processed_images, skipped_labels, datasets) ==
    [res |-> res, fs |-> fs, label_map |-> label_map,
     processed_images |-> processed_images, skipped_labels |-> skipped_labels,
     datasets |-> datasets]

coco_add_to_dataset_resets(f, fs1, label_map, processed_images, skipped_labels, datasets, split, acc) ==
    CocoOutcome(
        Ok([annotation_count |-> Len(acc.coco_annotations),
            skipped_count |-> acc.skipped_count,
            invalid_annotations |-> acc.invalid_annotations]),
        fs1, label_map, processed_images, skipped_labels \cup acc.skipped_labels,
        [datasets EXCEPT
            !.image_id_counter = @ + 1,
            ![split] = [images |-> Append(@.images,
                                          [id |-> datasets.image_id_counter,
                                           file_name |->
                                               resolve_image_path(f.json, f.image_path),
                                           width |-> f.image_width,
                                           height |-> f.image_height,
                                           by |-> f.json]),
                        annotations |-> @.annotations \o acc.coco_annotations]])

\* coco.rs 342-406: the image entry and the annotations join the split's dataset
coco_add_to_dataset(f, fs1, label_map, processed_images, skipped_labels, datasets, split, acc) ==
    CocoOutcome(
        Ok([annotation_count |-> Len(acc.coco_annotations),
            skipped_count |-> acc.skipped_count,
            invalid_annotations |-> acc.invalid_annotations]),
        fs1, label_map, processed_images, skipped_labels \cup acc.skipped_labels,
        [datasets EXCEPT
            !.image_id_counter = @ + 1,
            !.annotation_id_counter = acc.annotation_id_counter,
            ![split] = [images |-> Append(@.images,
                                          [id |-> datasets.image_id_counter,
                                           file_name |->
                                               resolve_image_path(f.json, f.image_path),
                                           width |-> f.image_width,
                                           height |-> f.image_height,
                                           by |-> f.json]),
                        annotations |-> @.annotations \o acc.coco_annotations]])

\* coco.rs 319-340: the image is extracted or copied, or the file fails
coco_after_image(f, config, fs, label_map, processed_images, skipped_labels, datasets, input_format, split, img) ==
    IF ~img.ok
    THEN CocoOutcome(img, fs, label_map, processed_images, skipped_labels, datasets)
    ELSE coco_add_to_dataset(
             f, img.val, label_map, processed_images, skipped_labels, datasets, split,
             coco_shapes(f, Len(f.shapes), label_map, config, input_format,
                         datasets.image_id_counter, datasets.annotation_id_counter,
                         f.json.stem))

\* coco.rs 302-340 once the split of the image is known
coco_in_split(f, config, fs, label_map, processed_images, skipped_labels, datasets, input_format, fault, split, images_dir) ==
    coco_after_image(
        f, config, fs, label_map, processed_images, skipped_labels, datasets,
        input_format, split,
        IF f.image_data # "none"
        THEN extract_embedded_image(fs, f.image_data, images_dir,
                                    resolve_image_path(f.json, f.image_path).stem,
                                    resolve_image_path(f.json, f.image_path).ext,
                                    fault # "copy")
        ELSE IF resolve_image_path(f.json, f.image_path) \in Range(images)
        THEN copy_image(fs, resolve_image_path(f.json, f.image_path), images_dir,
                        fault # "copy")
        ELSE Err("Image file not found"))

process_single_file_coco(f, config, fs, label_map, processed_images, skipped_labels, datasets, input_format, fault) ==
    IF ~f.readable
    THEN CocoOutcome(Err("Failed to open or parse"), fs, label_map, processed_images,
                     skipped_labels, datasets)
    ELSE coco_in_split(
             f, config, fs,
             IF config.label_list = <<>> /\ ~config.deterministic_labels
             THEN add_labels(label_map, f.shapes, Len(f.shapes))
             ELSE label_map,
             processed_images \cup {resolve_image_path(f.json, f.image_path)},
             skipped_labels, datasets, input_format, fault,
             split_of(resolve_image_path(f.json, f.image_path), config),
             get_split_dirs(fs.dirs,
                            split_of(resolve_image_path(f.json, f.image_path),
                                     config)).images)

----------------------------------------------------------------------------
\* pipeline.rs: ProcessingContext; labelme_out.rs: LabelMePipeline

ensure_label_renumbers(label_map, label) ==
    [l \in DOMAIN label_map \cup {label} |->
        IF l = label THEN Cardinality(DOMAIN label_map) ELSE label_map[l]]

ensure_label(label_map, label) ==
    IF label \in DOMAIN label_map THEN label_map
    ELSE [l \in DOMAIN label_map \cup {label} |->
             IF l = label THEN Cardinality(DOMAIN label_map) ELSE label_map[l]]

is_image_processed(processed_images, image_key) == image_key \in processed_images

RECURSIVE filter_shapes_registers_dropped(_, _, _, _, _)
filter_shapes_registers_dropped(shapes, n, label_list, label_map, skipped_labels) ==
    IF n = 0
    THEN [filtered |-> <<>>, skipped |-> 0, label_map |-> label_map,
          skipped_labels |-> skipped_labels]
    ELSE LET acc == filter_shapes_registers_dropped(shapes, n - 1, label_list, label_map, skipped_labels)
             shape == shapes[n]
         IN IF label_list = <<>>
            THEN [acc EXCEPT !.label_map = ensure_label(@, shape.label),
                             !.filtered = Append(@, shape)]
            ELSE IF shape.label \in Range(label_list)
            THEN [acc EXCEPT !.label_map = ensure_label(@, shape.label),
                             !.filtered = Append(@, shape)]
            ELSE [acc EXCEPT !.label_map = ensure_label(@, shape.label),
                             !.skipped_labels = @ \cup {shape.label},
                             !.skipped = @ + 1]


\* filter_shapes over the first n shapes: the shapes kept, the number skipped,
\* and the label map and skipped labels of the context afterwards
RECURSIVE filter_shapes(_, _, _, _, _)
filter_shapes(shapes, n, label_list, label_map, skipped_labels) ==
    IF n = 0
    THEN [filtered |-> <<>>, skipped |-> 0, label_map |-> label_map,
          skipped_labels |-> skipped_labels]
    ELSE LET acc == filter_shapes(shapes, n - 1, label_list, label_map, skipped_labels)
             shape == shapes[n]
         IN IF label_list = <<>>
            THEN [acc EXCEPT !.label_map = ensure_label(@, shape.label),
                             !.filtered = Append(@, shape)]
            ELSE IF shape.label \in Range(label_list)
            THEN [acc EXCEPT !.label_map = ensure_label(@, shape.label),
                             !.filtered = Append(@, shape)]
            ELSE [acc EXCEPT !.skipped_labels = @ \cup {shape.label},
                             !.skipped = @ + 1]

\* write_labelme_json: the document written under the JSON file's own name
write_labelme_json(fs, dir, name, annotation, write_ok) ==
    IF ~write_ok \/ dir \notin fs.dirs THEN Err("Failed to write JSON")
    ELSE Ok([fs EXCEPT !.docs =
                {x \in @ : ~(x.dir = dir /\ x.name = name)}
                \cup {[dir |-> dir, name |-> name,
                       content |-> [shapes |-> annotation.shapes,
                                    image_data |-> annotation.image_data],
                       by |-> annotation.json]}])

OutputDir == [kind |-> "output", split |-> ""]

\* labelme_out.rs 91-103: the image is copied when it exists
labelme_copy_image(f, fs1, label_map, processed_images, skipped_labels, fault, fl) ==
    IF resolve_image_path(f.json, f.image_path) \in Range(images) /\ fault = "copy"
    THEN Outcome(Err("Failed to copy image"), fs1, label_map, processed_images,
                 skipped_labels)
    ELSE Outcome(Ok([annotation_count |-> Len(fl.filtered),
                     skipped_count |-> fl.skipped,
                     invalid_annotations |-> <<>>]),
                 IF resolve_image_path(f.json, f.image_path) \in Range(images)
                 THEN copy_image(fs1, resolve_image_path(f.json, f.image_path),
                                 OutputDir, TRUE).val
                 ELSE fs1,
                 label_map, processed_images, skipped_labels)

\* labelme_out.rs 71-89: the filtered document is written
labelme_write_json(f, fs, processed_images, fault, fl, w) ==
    IF ~w.ok THEN Outcome(w, fs, fl.label_map, processed_images, fl.skipped_labels)
    ELSE labelme_copy_image(f, w.val, fl.label_map, processed_images, fl.skipped_labels,
                            fault, fl)

\* labelme_out.rs 63-89: the shapes are filtered by the label list
labelme_filtered(f, config, fs, processed_images, fault, fl) ==
    labelme_write_json(
        f, fs, processed_images, fault, fl,
        write_labelme_json(fs, OutputDir, f.json.stem,
                           [f EXCEPT !.shapes = fl.filtered,
                                     !.image_data = IF config.remove_image_data
                                                    THEN "none" ELSE @],
                           fault # "write"))

process_file_labelme(f, config, fs, label_map, processed_images, skipped_labels, fault) ==
    IF ~f.readable
    THEN Outcome(Err("Failed to open or parse"), fs, label_map, processed_images,
                 skipped_labels)
    ELSE IF is_image_processed(processed_images, resolve_image_path(f.json, f.image_path))
    THEN Outcome(Ok([annotation_count |-> 0, skipped_count |-> 0,
                     invalid_annotations |-> <<>>]),
                 fs, label_map, processed_images, skipped_labels)
    ELSE labelme_filtered(
             f, config, fs,
             processed_images \cup {resolve_image_path(f.json, f.image_path)},
             fault,
             filter_shapes(f.shapes, Len(f.shapes), config.label_list, label_map,
                           skipped_labels))

----------------------------------------------------------------------------
\* types.rs: ProcessingStats and ConversionResult

InvalidCap == 100

NewStats ==
    [total_files |-> 0, processed_files |-> 0, skipped_files |-> 0, failed_files |-> 0,
     total_annotations |-> 0, skipped_annotations |-> 0, background_images |-> 0,
     background_files |-> <<>>, labels_found |-> {}, skipped_labels |-> {},
     invalid_annotations |-> <<>>]

increment_processed(stats) == [stats EXCEPT !.processed_files = @ + 1]

increment_failed_forgets(stats) == stats

increment_failed(stats) == [stats EXCEPT !.failed_files = @ + 1]

add_annotations(stats, count) == [stats EXCEPT !.total_annotations = @ + count]

add_skipped_annotations_forgets(stats, count) == stats

add_skipped_annotations(stats, count) == [stats EXCEPT !.skipped_annotations = @ + count]

\* add_background_file: every background image is counted, the first
\* BackgroundCap names are kept
BackgroundCap == 100

add_background_file(stats, file_name) ==
    [stats EXCEPT !.background_images = @ + 1,
                  !.background_files = IF Len(@) < BackgroundCap
                                       THEN Append(@, file_name) ELSE @]

add_invalid_annotation_inclusive_cap(stats, annotation) ==
    IF Len(stats.invalid_annotations) <= InvalidCap
    THEN [stats EXCEPT !.invalid_annotations = Append(@, annotation)]
    ELSE stats

add_invalid_annotation(stats, annotation) ==
    IF Len(stats.invalid_annotations) < InvalidCap
    THEN [stats EXCEPT !.invalid_annotations = Append(@, annotation)]
    ELSE stats

RECURSIVE add_invalid_annotations(_, _, _)
add_invalid_annotations(stats, list, n) ==
    IF n = 0 THEN stats
    ELSE add_invalid_annotation(add_invalid_annotations(stats, list, n - 1), list[n])

\* labels_found and skipped_labels are filled from hash-map and hash-set
\* iteration, whose order is unspecified: they are held as sets
add_labels_found(stats, labels) == [stats EXCEPT !.labels_found = @ \cup labels]

add_skipped_labels(stats, labels) == [stats EXCEPT !.skipped_labels = @ \cup labels]

NotReturned == [returned |-> FALSE]

success(output_dir, stats) ==
    [returned |-> TRUE, success |-> TRUE, output_dir |-> output_dir, stats |-> stats,
     errors |-> <<>>]

failure_reported_as_success(errors) ==
    [returned |-> TRUE, success |-> TRUE, output_dir |-> "", stats |-> NewStats,
     errors |-> errors]

failure(errors) ==
    [returned |-> TRUE, success |-> FALSE, output_dir |-> "", stats |-> NewStats,
     errors |-> errors]

NewContext ==
    [stats |-> NewStats, label_map |-> <<>>, processed_images |-> {},
     skipped_labels |-> {}, errors |-> <<>>]

NewDatasets ==
    [Train |-> [images |-> <<>>, annotations |-> <<>>],
     Val |-> [images |-> <<>>, annotations |-> <<>>],
     Test |-> [images |-> <<>>, annotations |-> <<>>],
     image_id_counter |-> 0, annotation_id_counter |-> 0]

EmptyFs == [dirs |-> {}, images |-> {}, labels |-> {}, docs |-> {}]

----------------------------------------------------------------------------
\* detection.rs: analyze_dataset; mod.rs: convert

\* the sampling loop of analyze_dataset_with_config over files i..sample_files:
\* the shapes collected and the number of files read
RECURSIVE sample_shapes_without_break(_, _, _, _, _, _)
sample_shapes_without_break(json_files, i, sample_files, all_shapes, reads, config) ==
    IF i > sample_files THEN [shapes |-> all_shapes, reads |-> reads]
    ELSE IF json_files[i].readable
    THEN sample_shapes_without_break(json_files, i + 1, sample_files,
                                     all_shapes \o json_files[i].shapes, reads + 1, config)
    ELSE sample_shapes_without_break(json_files, i + 1, sample_files, all_shapes,
                                     reads + 1, config)

RECURSIVE sample_shapes(_, _, _, _, _, _)
sample_shapes(json_files, i, sample_files, all_shapes, reads, config) ==
    IF i > sample_files THEN [shapes |-> all_shapes, reads |-> reads]
    ELSE IF json_files[i].readable
    THEN LET ext == all_shapes \o json_files[i].shapes IN
         IF Len(ext) >= config.max_sample_annotations
         THEN [shapes |-> ext, reads |-> reads + 1]
         ELSE sample_shapes(json_files, i + 1, sample_files, ext, reads + 1, config)
    ELSE sample_shapes(json_files, i + 1, sample_files, all_shapes, reads + 1, config)

analyze_dataset_without_empty_case(json_files, config) ==
    LET total_files == Len(json_files)
        sample_files == Min(total_files, config.max_sample_files)
        s == sample_shapes(json_files, 1, sample_files, <<>>, 0, config)
    IN [analysis |-> analyze_shapes(s.shapes, total_files, sample_files, config),
        reads |-> s.reads]

analyze_dataset_with_config(json_files, config) ==
    IF json_files = <<>>
    THEN [analysis |-> [DefaultAnalysis EXCEPT !.format_description = "no JSON files"],
          reads |-> 0]
    ELSE LET total_files == Len(json_files)
             sample_files == Min(total_files, config.max_sample_files)
             s == sample_shapes(json_files, 1, sample_files, <<>>, 0, config)
         IN [analysis |-> analyze_shapes(s.shapes, total_files, sample_files, config),
             reads |-> s.reads]

analyze_dataset(json_files) == analyze_dataset_with_config(json_files, DefaultAnalysisConfig)

\* convert (mod.rs 77-89): the format is detected, from the files, before the
\* format's converter is entered
Convert ==
    /\ pc = "convert"
    /\ IF ~cfg.detected_input_format.some
       THEN LET a == analyze_dataset(files) IN
            /\ cfg' = [cfg EXCEPT !.detected_input_format = Some(a.analysis.input_format)]
            /\ io' = io + a.reads
       ELSE UNCHANGED <<cfg, io>>
    /\ pc' = "setup"
    /\ UNCHANGED <<call, ret, files, images, idx, ctx, coco, outfs, log, result, scan>>

\* convert_to_yolo 21-59, convert_to_coco 135-181, convert_to_labelme 191-214:
\* validation, output directories, the context, the first pass over the labels
setup_dirs(config) ==
    CASE config.output_format = "Yolo" -> setup_yolo_directories(config)
      [] config.output_format = "Coco" -> setup_coco_directories(config)
      [] OTHER -> setup_labelme_directories(config)

Setup ==
    /\ pc = "setup"
    /\ LET v == validate(cfg) IN
       IF ~v.ok
       THEN /\ result' = failure(<<v.reason>>)
            /\ pc' = "done"
            /\ UNCHANGED <<ctx, coco, outfs, io>>
       ELSE \E dirs_ok \in BOOLEAN :
            IF ~dirs_ok
            THEN /\ result' = failure(<<"Failed to create output directories">>)
                 /\ pc' = "done"
                 /\ UNCHANGED <<ctx, coco, outfs, io>>
            ELSE LET gather == cfg.output_format # "LabelMe"
                               /\ cfg.deterministic_labels /\ cfg.label_list = <<>>
                     lm0 == labels_from_list(cfg.label_list, Len(cfg.label_list))
                 IN /\ outfs' = [outfs EXCEPT !.dirs = setup_dirs(cfg)]
                    /\ ctx' = [ctx EXCEPT
                                  !.stats.total_files = Len(files),
                                  !.label_map = IF gather THEN gather_labels(files, lm0)
                                                ELSE lm0]
                    /\ io' = IF gather THEN io + Len(files) ELSE io
                    /\ coco' = [coco EXCEPT
                                   !.image_id_counter = cfg.start_image_id,
                                   !.annotation_id_counter = cfg.start_annotation_id]
                    /\ pc' = "loop"
                    /\ UNCHANGED result
    /\ UNCHANGED <<call, ret, cfg, files, images, idx, log, scan>>

----------------------------------------------------------------------------
\* The loop over the JSON files: one file per step

Faults == {"none", "copy", "write"}

\* the match on the handler's result (yolo.rs 72-85, coco.rs 199-211,
\* labelme_out.rs 219-228)
count_outcome(context, f, res) ==
    IF res.ok
    THEN [context EXCEPT
             !.stats = add_invalid_annotations(
                           add_skipped_annotations(
                               add_annotations(increment_processed(@),
                                               res.val.annotation_count),
                               res.val.skipped_count),
                           res.val.invalid_annotations,
                           Len(res.val.invalid_annotations))]
    ELSE [context EXCEPT
             !.stats = increment_failed(@),
             !.errors = Append(@, [file |-> f.json, message |-> res.reason])]

FileStep(f, fault) ==
    CASE cfg.output_format = "Yolo" ->
            process_single_file(f, cfg, outfs, ctx.label_map, ctx.processed_images,
                                ctx.skipped_labels, cfg.detected_input_format.val, fault)
            @@ [datasets |-> coco]
      [] cfg.output_format = "Coco" ->
            process_single_file_coco(f, cfg, outfs, ctx.label_map, ctx.processed_images,
                                     ctx.skipped_labels, coco,
                                     cfg.detected_input_format.val, fault)
      [] OTHER ->
            process_file_labelme(f, cfg, outfs, ctx.label_map, ctx.processed_images,
                                 ctx.skipped_labels, fault) @@ [datasets |-> coco]

ProcessFile ==
    /\ pc = "loop"
    /\ idx < Len(files)
    /\ \E fault \in Faults :
       \E st \in {FileStep(files[idx + 1], fault)} :
       \E c2 \in {count_outcome([ctx EXCEPT !.label_map = st.label_map,
                                            !.processed_images = st.processed_images,
                                            !.skipped_labels = st.skipped_labels],
                                files[idx + 1], st.res)} :
         LET f == files[idx + 1]
             key == resolve_image_path(f.json, f.image_path)
         IN /\ ctx' = c2
            /\ coco' = st.datasets
            /\ outfs' = st.fs
            /\ io' = io + 1
            /\ log' = Append(log,
                   [file |-> idx + 1,
                    key |-> key,
                    read |-> f.readable,
                    duplicate |-> f.readable /\ key \in ctx.processed_images,
                    fault |-> fault,
                    ok |-> st.res.ok,
                    processed |-> c2.stats.processed_files - ctx.stats.processed_files,
                    failed |-> c2.stats.failed_files - ctx.stats.failed_files,
                    wrote |-> st.fs # outfs \/ st.datasets # coco,
                    placed |-> {i.dir.split : i \in st.fs.images \ outfs.images}
                               \cup {l.dir.split : l \in st.fs.labels \ outfs.labels}
                               \cup {SplitStr(s) : s \in {t \in {"Train", "Val", "Test"} :
                                                          st.datasets[t] # coco[t]}},
                    annotations |-> c2.stats.total_annotations - ctx.stats.total_annotations,
                    skipped |-> c2.stats.skipped_annotations - ctx.stats.skipped_annotations,
                    invalid |-> Len(c2.stats.invalid_annotations)
                                - Len(ctx.stats.invalid_annotations),
                    new_errors |-> Len(c2.errors) - Len(ctx.errors)])
    /\ idx' = idx + 1
    /\ UNCHANGED <<call, ret, cfg, files, images, pc, result, scan>>

----------------------------------------------------------------------------
\* After the loop: background images, the labels of the statistics, the final
\* documents and the result

\* the labels of a label map in the order of their ids (sort_by_key on the id)
RECURSIVE sorted_by_id(_)
sorted_by_id(label_map) ==
    IF DOMAIN label_map = {} THEN <<>>
    ELSE LET first == CHOOSE l \in DOMAIN label_map :
                          \A m \in DOMAIN label_map : label_map[l] <= label_map[m]
         IN <<[name |-> first, id |-> label_map[first]]>>
            \o sorted_by_id([l \in DOMAIN label_map \ {first} |-> label_map[l]])

\* process_background_images over the first n image files of the walk
RECURSIVE process_background_images(_, _, _, _)
process_background_images(config, fs, processed_images, n) ==
    IF n = 0 THEN [fs |-> fs, bg_files |-> <<>>]
    ELSE LET acc == process_background_images(config, fs, processed_images, n - 1)
             image_path == images[n]
             split == determine_split(hash_string(image_path), config.val_size,
                                      config.test_size)
             d == get_split_dirs(fs.dirs, split)
             c == copy_image(acc.fs, image_path, d.images, TRUE)
         IN IF image_path.dir = "/" \/ image_path \in processed_images \/ ~c.ok THEN acc
            ELSE [fs |-> write_label_file(c.val, d.labels, image_path.stem, <<>>,
                                          [dir |-> "background", stem |-> image_path.stem]),
                  bg_files |-> Append(acc.bg_files, image_path)]

RECURSIVE add_background_files(_, _, _)
add_background_files(stats, bg_files, n) ==
    IF n = 0 THEN stats
    ELSE add_background_file(add_background_files(stats, bg_files, n - 1), bg_files[n])

\* the writes after the loop that the environment can make fail; "background"
\* stands for the copies of the background images
FinalWrites(config) ==
    CASE config.output_format = "Yolo" ->
            {"dataset.yaml"}
            \cup (IF config.include_background THEN {"background"} ELSE {})
      [] config.output_format = "Coco" ->
            {"instances_train.json", "instances_val.json"}
            \cup (IF has_test_split(config) THEN {"instances_test.json"} ELSE {})
      [] OTHER -> {"labels.txt", "conversion_summary.txt"}

BaseDir == [kind |-> "base", split |-> ""]

WriteDoc(fs, name, content) ==
    [fs EXCEPT !.docs = {x \in @ : ~(x.dir = BaseDir /\ x.name = name)}
                        \cup {[dir |-> BaseDir, name |-> name, content |-> content,
                               by |-> [dir |-> "", stem |-> "finalize"]]}]

\* convert_to_yolo 88-119
FinalizeYolo(failing) ==
    LET bg == IF cfg.include_background /\ "background" \notin failing
              THEN process_background_images(cfg, outfs, ctx.processed_images, Len(images))
              ELSE [fs |-> outfs, bg_files |-> <<>>]
        st1 == add_background_files(ctx.stats, bg.bg_files, Len(bg.bg_files))
        st2 == add_skipped_labels(add_labels_found(st1, DOMAIN ctx.label_map),
                                  ctx.skipped_labels)
        yaml_ok == "dataset.yaml" \notin failing
        errors == IF yaml_ok THEN ctx.errors
                  ELSE Append(ctx.errors, [file |-> "dataset.yaml",
                                           message |-> "Failed to create dataset.yaml"])
    IN /\ outfs' = IF yaml_ok
                   THEN WriteDoc(bg.fs, "dataset.yaml",
                                 [names |-> sorted_by_id(ctx.label_map),
                                  test |-> has_test_split(cfg)])
                   ELSE bg.fs
       /\ ctx' = [ctx EXCEPT !.stats = st2, !.errors = errors]
       /\ result' = [success("base", st2) EXCEPT !.errors = errors]
       /\ UNCHANGED coco

\* build_categories
build_categories(label_map) ==
    LET s == sorted_by_id(label_map)
    IN [i \in DOMAIN s |-> [id |-> s[i].id + 1, name |-> s[i].name]]

RECURSIVE write_coco_docs(_, _, _, _)
write_coco_docs(fs, names, failing, categories) ==
    IF names = <<>> THEN [fs |-> fs, errors |-> <<>>]
    ELSE LET rest == write_coco_docs(
                         IF names[1].doc \in failing THEN fs
                         ELSE WriteDoc(fs, names[1].doc,
                                       [categories |-> categories,
                                        images |-> coco[names[1].split].images,
                                        annotations |-> coco[names[1].split].annotations]),
                         Tail(names), failing, categories)
         IN [fs |-> rest.fs,
             errors |-> (IF names[1].doc \in failing
                         THEN <<[file |-> names[1].doc,
                                 message |-> "Failed to write annotations"]>>
                         ELSE <<>>) \o rest.errors]

\* convert_to_coco 214-252
FinalizeCoco(failing) ==
    LET categories == build_categories(ctx.label_map)
        st2 == add_skipped_labels(add_labels_found(ctx.stats, DOMAIN ctx.label_map),
                                  ctx.skipped_labels)
        docs == <<[doc |-> "instances_train.json", split |-> "Train"],
                  [doc |-> "instances_val.json", split |-> "Val"]>>
                \o (IF has_test_split(cfg)
                    THEN <<[doc |-> "instances_test.json", split |-> "Test"]>> ELSE <<>>)
        w == write_coco_docs(outfs, docs, failing, categories)
        errors == ctx.errors \o w.errors
    IN /\ outfs' = w.fs
       /\ ctx' = [ctx EXCEPT !.stats = st2, !.errors = errors]
       /\ result' = [success("base", st2) EXCEPT !.errors = errors]
       /\ UNCHANGED coco

\* convert_to_labelme 231-258 with LabelMePipeline::finalize
FinalizeLabelMe(failing) ==
    LET st2 == add_skipped_labels(add_labels_found(ctx.stats, DOMAIN ctx.label_map),
                                  ctx.skipped_labels)
        want_labels == DOMAIN ctx.label_map # {}
        labels_fail == want_labels /\ "labels.txt" \in failing
        summary_fail == ~labels_fail /\ "conversion_summary.txt" \in failing
        fs1 == IF want_labels /\ ~labels_fail
               THEN WriteDoc(outfs, "labels.txt", sorted_by_id(ctx.label_map))
               ELSE outfs
        fs2 == IF ~labels_fail /\ ~summary_fail
               THEN WriteDoc(fs1, "conversion_summary.txt",
                             [processed |-> st2.processed_files,
                              annotations |-> st2.total_annotations,
                              skipped |-> st2.skipped_annotations,
                              labels |-> DOMAIN ctx.label_map])
               ELSE fs1
        errors == IF labels_fail
                  THEN Append(ctx.errors, [file |-> "labels.txt",
                                           message |-> "Failed to write labels.txt"])
                  ELSE IF summary_fail
                  THEN Append(ctx.errors, [file |-> "conversion_summary.txt",
                                           message |-> "Failed to write summary"])
                  ELSE ctx.errors
    IN /\ outfs' = fs2
       /\ ctx' = [ctx EXCEPT !.stats = st2, !.errors = errors]
       /\ result' = [success("base", st2) EXCEPT !.errors = errors]
       /\ UNCHANGED coco

Finalize ==
    /\ pc = "loop"
    /\ idx = Len(files)
    /\ \E failing \in SUBSET FinalWrites(cfg) :
         CASE cfg.output_format = "Yolo" -> FinalizeYolo(failing)
           [] cfg.output_format = "Coco" -> FinalizeCoco(failing)
           [] OTHER -> FinalizeLabelMe(failing)
    /\ pc' = "done"
    /\ UNCHANGED <<call, ret, cfg, files, images, idx, log, io, scan>>

----------------------------------------------------------------------------
\* The inputs of the model: shapes, JSON files, image files, configurations

P(x, y) == <<x * Unit, y * Unit>>

Sh(label, shape_type, points) ==
    [label |-> label, points |-> points, shape_type |-> shape_type]

\* create_test_shape of the detection tests: n points on the diagonal
TestShape(n) == Sh("cat", "polygon", [i \in 1..n |-> P(i - 1, i - 1)])

Rect == <<P(1, 1), P(3, 3)>>

FlatRect == <<P(1, 1), P(1, 3)>>

OutsideRect == <<P(5, 1), P(6, 3)>>

Triangle == <<P(0, 0), P(2, 0), P(0, 2)>>

Square == <<P(1, 1), P(3, 1), P(3, 3), P(1, 3)>>

ClosedTriangle == <<P(0, 0), P(2, 0), P(0, 2), P(0, 0)>>

Pentagon == <<P(0, 0), P(2, 0), P(3, 1), P(2, 2), P(0, 2)>>

Geometries ==
    {Sh("cat", "rectangle", Rect), Sh("cat", "rectangle", FlatRect),
     Sh("cat", "rectangle", OutsideRect), Sh("cat", "circle", <<P(2, 2), P(3, 2)>>),
     Sh("cat", "circle", <<P(2, 2), P(2, 2)>>), Sh("cat", "polygon", Triangle),
     Sh("cat", "polygon", Square), Sh("cat", "polygon", ClosedTriangle),
     Sh("cat", "polygon", Pentagon), Sh("cat", "line", Rect)}

ShapePool == Geometries \cup {TestShape(n) : n \in 0..MaxPointCount}

ImageSide == 4 * Unit

JsonFile(dir, stem, image_stem, image_ext, image_data, readable, shapes) ==
    [json |-> [dir |-> dir, stem |-> stem],
     image_path |-> [absolute |-> FALSE, stem |-> image_stem, ext |-> image_ext],
     image_data |-> image_data, readable |-> readable, shapes |-> shapes,
     image_width |-> ImageSide, image_height |-> ImageSide]

FilePool ==
    {JsonFile("a", "f1", "x", "jpg", "none", TRUE,
              <<Sh("cat", "rectangle", Rect), Sh("dog", "polygon", Triangle)>>),
     JsonFile("a", "f2", "x", "jpg", "none", TRUE, <<Sh("dog", "polygon", Square)>>),
     JsonFile("a", "f3", "y", "jpg", "none", TRUE, <<Sh("bird", "rectangle", Rect)>>),
     JsonFile("a", "f4", "x", "jpg", "none", FALSE, <<>>),
     JsonFile("b", "f1", "z", "png", "base64", TRUE,
              <<Sh("cat", "rectangle", FlatRect), Sh("cat", "polygon", <<>>)>>),
     JsonFile("b", "f5", "x", "jpg", "none", TRUE, <<>>),
     JsonFile("b", "f6", "w", "jpg", "none", TRUE, <<Sh("bird", "rectangle", Rect)>>)}

\* the image files under the input directory, in walk order: b/w.jpg is missing
DiskImages ==
    <<[dir |-> "a", stem |-> "x", ext |-> "jpg"],
      [dir |-> "a", stem |-> "y", ext |-> "jpg"],
      [dir |-> "a", stem |-> "w", ext |-> "jpg"],
      [dir |-> "b", stem |-> "x", ext |-> "jpg"]>>

\* walks of up to n distinct JSON files
RECURSIVE Walks(_)
Walks(n) ==
    IF n = 0 THEN {<<>>}
    ELSE Walks(n - 1) \cup
         {w \in [1..n -> FilePool] : \A i, j \in 1..n : i # j => w[i] # w[j]}

\* val_size and test_size in thousandths: two valid pairs, four invalid ones
SizePairs == {<<200, 100>>, <<500, 0>>, <<1500, 0>>, <<600, 500>>, <<200, -100>>,
              <<0, 1200>>}

Seeds == {42, 7}

LabelPolicies ==
    {[label_list |-> <<>>, deterministic_labels |-> FALSE],
     [label_list |-> <<>>, deterministic_labels |-> TRUE],
     [label_list |-> <<"cat">>, deterministic_labels |-> FALSE],
     [label_list |-> <<"cat", "dog", "cat">>, deterministic_labels |-> FALSE]}

DetectedFormats == {None, Some("Bbox2Point"), Some("Polygon")}

Modes ==
    {[output_format |-> "Yolo", annotation_format |-> "Bbox"],
     [output_format |-> "Yolo", annotation_format |-> "Polygon"],
     [output_format |-> "Coco", annotation_format |-> "Bbox"],
     [output_format |-> "LabelMe", annotation_format |-> "Bbox"]}

Config(mode, sizes, seed, policy, detected, exists) ==
    [input_exists |-> exists,
     output_format |-> mode.output_format,
     annotation_format |-> mode.annotation_format,
     val_size |-> sizes[1], test_size |-> sizes[2], seed |-> seed,
     include_background |-> FALSE,
     label_list |-> policy.label_list,
     deterministic_labels |-> policy.deterministic_labels,
     segmentation_mode |-> "Polygon",
     start_image_id |-> 1, start_annotation_id |-> 1,
     remove_image_data |-> FALSE,
     detected_input_format |-> detected]

DefaultPolicy == [label_list |-> <<>>, deterministic_labels |-> FALSE]

\* the configurations: every label policy and detected format under the
\* default split, every split and seed under the default label policy, a
\* COCO configuration whose ids start at other offsets, and a YOLO
\* configuration that includes the background images
Configs ==
    {Config(m, <<200, 100>>, 42, p, d, TRUE) :
        m \in Modes, p \in LabelPolicies, d \in DetectedFormats}
    \cup {Config(m, s, seed, DefaultPolicy, None, TRUE) :
             m \in Modes, s \in SizePairs, seed \in Seeds}
    \cup {Config(m, <<200, 100>>, 42, DefaultPolicy, None, FALSE) : m \in Modes}
    \cup {[Config([output_format |-> "Coco", annotation_format |-> "Bbox"],
                  <<200, 100>>, 42, DefaultPolicy, None, TRUE)
              EXCEPT !.start_image_id = 3, !.start_annotation_id = 7]}
    \cup {[Config([output_format |-> "Yolo", annotation_format |-> "Bbox"],
                  <<200, 100>>, 42, DefaultPolicy, Some("Unknown"), TRUE)
              EXCEPT !.include_background = TRUE]}

IdleCall == [fn |-> "none"]

IdleRet == [done |-> FALSE]

Init ==
    /\ call = IdleCall
    /\ ret = IdleRet
    /\ cfg \in Configs
    /\ files \in Walks(MaxFiles)
    /\ ~cfg.input_exists => files = <<>>
    /\ images = IF cfg.input_exists THEN DiskImages ELSE <<>>
    /\ pc = "convert"
    /\ idx = 0
    /\ ctx = NewContext
    /\ coco = NewDatasets
    /\ outfs = EmptyFs
    /\ log = <<>>
    /\ io = 0
    /\ result = NotReturned
    /\ scan = [phase |-> "idle"]

Next == Convert \/ Setup \/ ProcessFile \/ Finalize

Spec == Init /\ [][Next]_vars

----------------------------------------------------------------------------
\* Pure functions applied on their own: call holds the function and its
\* arguments, ret its value; no conversion run is under way

IdleCfg == Config([output_format |-> "Coco", annotation_format |-> "Bbox"],
                  <<200, 100>>, 42, DefaultPolicy, None, TRUE)

InitIdleRun ==
    /\ cfg = IdleCfg
    /\ files = <<>>
    /\ images = <<>>
    /\ pc = "idle"
    /\ idx = 0
    /\ ctx = NewContext
    /\ coco = NewDatasets
    /\ outfs = EmptyFs
    /\ log = <<>>
    /\ io = 0
    /\ result = NotReturned
    /\ scan = [phase |-> "idle"]

Return(v) ==
    /\ ~ret.done
    /\ ret' = [done |-> TRUE, val |-> v]
    /\ UNCHANGED call
    /\ UNCHANGED runVars

\* one shape under one dataset-wide input format is handed to the validation
\* and to the shape loop of each writer; only "cat" is in the label map
CatOnly == [l \in {"cat"} |-> 0]

OneShape(shape) ==
    JsonFile("a", "f1", "x", "jpg", "none", TRUE, <<shape>>)

ApplyValidate ==
    /\ call.fn = "validate_shape_points"
    /\ Return(validate_shape_points(call.shape, call.input_format))

ApplyYoloShapes ==
    /\ call.fn = "yolo_shapes"
    /\ Return(yolo_shapes(OneShape(call.shape), 1, CatOnly,
                          [IdleCfg EXCEPT !.annotation_format = call.format],
                          call.input_format, "f1"))

ApplyCocoShapes ==
    /\ call.fn = "coco_shapes"
    /\ Return(coco_shapes(OneShape(call.shape), 1, CatOnly,
                          [IdleCfg EXCEPT !.annotation_format = call.format],
                          call.input_format, 1, 1, "f1"))

InitShape ==
    /\ \E fn \in {"validate_shape_points", "yolo_shapes", "coco_shapes"},
          s \in ShapePool, l \in {"cat", "dog"},
          f \in InputAnnotationFormat, a \in {"Bbox", "Polygon"} :
          call = [fn |-> fn, shape |-> [s EXCEPT !.label = l], input_format |-> f,
                  format |-> a]
    /\ ret = IdleRet
    /\ InitIdleRun

NextShape == ApplyValidate \/ ApplyYoloShapes \/ ApplyCocoShapes

SpecShape == InitShape /\ [][NextShape]_vars

\* filter_shapes applied to a shape list under a label list, in a context
\* that holds the list's labels, no label, or a label of an earlier file
ApplyFilterShapes ==
    /\ call.fn = "filter_shapes"
    /\ Return(filter_shapes(call.shapes, Len(call.shapes), call.label_list,
                            call.label_map, call.skipped_labels))

InitFilter ==
    /\ \E n \in 0..MaxShapes,
          ll \in {<<>>, <<"cat">>, <<"dog", "cat">>, <<"bird">>},
          sk \in {{}, {"dog"}} :
          \E shapes \in [1..n -> {Sh("cat", "rectangle", Rect), Sh("cat", "polygon", Triangle),
                                  Sh("dog", "rectangle", Rect), Sh("bird", "rectangle", Rect)}],
             lm \in {<<>>, [l \in {"dog"} |-> 0], labels_from_list(ll, Len(ll))} :
             call = [fn |-> "filter_shapes", shapes |-> shapes, label_list |-> ll,
                     label_map |-> lm, skipped_labels |-> sk]
    /\ ret = IdleRet
    /\ InitIdleRun

SpecFilter == InitFilter /\ [][ApplyFilterShapes]_vars

\* a histogram of point counts and the sample of shapes that has it
Histograms == [1..MaxPointCount -> 0..MaxFreq]

RECURSIVE Repeat(_, _)
Repeat(x, n) == IF n = 0 THEN <<>> ELSE <<x>> \o Repeat(x, n - 1)

RECURSIVE SampleOf(_, _)
SampleOf(hist, k) ==
    IF k < 1 THEN <<>>
    ELSE SampleOf(hist, k - 1) \o Repeat(TestShape(k), hist[k])

Thresholds == {<<1, 2>>, <<4, 5>>}

ApplyAnalyzeShapes ==
    /\ call.fn = "analyze_shapes"
    /\ LET a == analyze_shapes(SampleOf(call.hist, MaxPointCount), 1, 1,
                               [DefaultAnalysisConfig EXCEPT
                                   !.confidence_threshold = call.threshold])
       IN Return([input_format |-> a.input_format, confidence |-> a.confidence])

ApplyDetectInputFormat ==
    /\ call.fn = "detect_input_format"
    /\ LET shapes == SampleOf(call.hist, MaxPointCount)
       IN Return([input_format |-> detect_input_format(shapes),
                  confidence |-> IF shapes = <<>> THEN <<0, 1>>
                                 ELSE analyze_shapes(shapes, 0, 0,
                                                     DefaultAnalysisConfig).confidence])

InitDetect ==
    /\ \E h \in Histograms :
          \/ \E t \in Thresholds :
                call = [fn |-> "analyze_shapes", hist |-> h, threshold |-> t]
          \/ call = [fn |-> "detect_input_format", hist |-> h,
                     threshold |-> DefaultAnalysisConfig.confidence_threshold]
    /\ ret = IdleRet
    /\ InitIdleRun

NextDetect == ApplyAnalyzeShapes \/ ApplyDetectInputFormat

SpecDetect == InitDetect /\ [][NextDetect]_vars

\* the analysis of a file list under small sampling limits; a file is
\* unreadable, or holds no shape, one shape or three shapes
ApplyAnalyzeDataset ==
    /\ call.fn = "analyze_dataset_with_config"
    /\ Return(analyze_dataset_with_config(call.json_files, call.config))

InitSample ==
    /\ \E n \in 0..MaxSampled, mf \in 1..3, ma \in 1..3 :
       \E fs \in [1..n -> {[readable |-> FALSE, shapes |-> <<TestShape(2)>>],
                           [readable |-> TRUE, shapes |-> <<>>],
                           [readable |-> TRUE, shapes |-> <<TestShape(2)>>],
                           [readable |-> TRUE,
                            shapes |-> <<TestShape(4), TestShape(4), TestShape(3)>>]}] :
          call = [fn |-> "analyze_dataset_with_config", json_files |-> fs,
                  config |-> [DefaultAnalysisConfig EXCEPT
                                 !.max_sample_files = mf,
                                 !.max_sample_annotations = ma]]
    /\ ret = IdleRet
    /\ InitIdleRun

SpecSample == InitSample /\ [][ApplyAnalyzeDataset]_vars

\* events recorded in the statistics one after the other, past the caps:
\* idx counts the invalid-annotation records handed to add_invalid_annotation,
\* io the background images handed to add_background_file; the k-th record
\* and the k-th file name carry the number k
Record ==
    /\ call.fn = "record"
    /\ \/ /\ idx < InvalidCap + MaxOver
          /\ ctx' = [ctx EXCEPT !.stats =
                        add_invalid_annotation(@, InvalidAnnotation(idx + 1, TestShape(1),
                                                                    InsufficientPoints))]
          /\ idx' = idx + 1
          /\ UNCHANGED io
       \/ /\ io < BackgroundCap + MaxOver
          /\ ctx' = [ctx EXCEPT !.stats = add_background_file(@, io + 1)]
          /\ io' = io + 1
          /\ UNCHANGED idx
    /\ UNCHANGED <<call, ret, cfg, files, images, pc, coco, outfs, log, result, scan>>

InitStats ==
    /\ call = [fn |-> "record"]
    /\ ret = IdleRet
    /\ InitIdleRun

SpecStats == InitStats /\ [][Record]_vars

\* determine_split on a hash and a valid pair of sizes (thousandths)
SizeGrid == {0, 100, 200, 500, 1000}

ValidSizes == {s \in SizeGrid \X SizeGrid : s[1] + s[2] <= 1000}

ApplyDetermineSplit ==
    /\ call.fn = "determine_split"
    /\ Return(determine_split(call.path_hash, call.val_size, call.test_size))

InitSplit ==
    /\ \E h \in 0..MaxHash, s \in ValidSizes :
          call = [fn |-> "determine_split", path_hash |-> h,
                  val_size |-> s[1], test_size |-> s[2]]
    /\ ret = IdleRet
    /\ InitIdleRun

NextSplit == ApplyDetermineSplit

SpecSplit == InitSplit /\ [][NextSplit]_vars

----------------------------------------------------------------------------
\* The parallel scanners (scanner/label_scanner.rs, scanner/count_scanner.rs).
\* call.dir tells how many JSON files of each kind the directory holds:
\*   plain  a LabelMe annotation with one shape labelled cat
\*   pair   a LabelMe annotation with shapes labelled cat, dog, cat
\*   bad    a file that cannot be read or is not JSON
\*   loose  JSON with a "shapes" array holding one shape labelled bird, but
\*          without the other fields of a LabelMe annotation
\* The closure of par_iter().for_each runs on the workers of the pool; any
\* idle worker may take any file that is left.  scan.acc is what the labels
\* (or label_counts) mutex guards, scan.processed what the processed mutex
\* guards; a mutex field is 0 when free, else the worker holding it.

Cadence == 100       \* a progress event every Cadence files
MaxWorkers == 2      \* workers of the pool
MaxExtra == 2        \* files of the directory that are not plain

\* the labels the scanners' own parse of a file yields: the "label" strings
\* of the "shapes" array; nothing when the file cannot be read or parsed
local_labels(kind) ==
    CASE kind = "plain" -> <<"cat">>
      [] kind = "pair" -> <<"cat", "dog", "cat">>
      [] kind = "loose" -> <<"bird">>
      [] OTHER -> <<>>

\* the sequential command: one file after the other through
\* read_labelme_json, which accepts complete annotations only
scan_labelme_labels_with_counts(dir) ==
    LET occ(kind, l) == Cardinality({i \in DOMAIN local_labels(kind) :
                                        local_labels(kind)[i] = l})
        n(l) == dir.plain * occ("plain", l) + dir.pair * occ("pair", l)
    IN [l \in {x \in Range(SortedLabels) : n(x) > 0} |-> n(l)]

\* lines 43-67 of both scanners: the directory check, the file list, the
\* empty case, the start event and the fresh accumulator and counter
ScanStart ==
    /\ scan.phase = "idle"
    /\ call.fn \in {"scan_labels", "scan_counts"}
    /\ ~ret.done
    /\ LET total == call.dir.plain + call.dir.pair + call.dir.bad + call.dir.loose
           state(phase, events) ==
               [phase |-> phase, todo |-> call.dir, total |-> total,
                w |-> [i \in 1..MaxWorkers |-> [pc |-> "idle", file |-> "none"]],
                acc_mutex |-> 0, processed_mutex |-> 0,
                acc |-> IF call.fn = "scan_labels" THEN {} ELSE <<>>,
                processed |-> 0, events |-> events]
       IN IF ~call.exists
          THEN /\ ret' = [done |-> TRUE, val |-> Err("Directory does not exist")]
               /\ scan' = state("done", <<>>)
          ELSE IF total = 0
          THEN /\ ret' = [done |-> TRUE, val |-> Ok(<<>>)]
               /\ scan' = state("done",
                                IF call.progress
                                THEN <<[current |-> 100, total |-> 100,
                                        message |-> "complete"]>>
                                ELSE <<>>)
          ELSE /\ scan' = state("running",
                                IF call.progress
                                THEN <<[current |-> 0, total |-> total,
                                        message |-> "start"]>>
                                ELSE <<>>)
               /\ UNCHANGED ret
    /\ UNCHANGED <<call, cfg, files, images, pc, idx, ctx, coco, outfs, log, io, result>>

\* a worker is handed the next file and starts to read it
TakeFile(w) ==
    /\ scan.phase = "running"
    /\ scan.w[w].pc = "idle"
    /\ \E kind \in DOMAIN scan.todo :
          /\ scan.todo[kind] > 0
          /\ scan' = [scan EXCEPT !.todo[kind] = @ - 1,
                                  !.w[w] = [pc |-> "read", file |-> kind]]
    /\ UNCHANGED <<call, ret, cfg, files, images, pc, idx, ctx, coco, outfs, log, io, result>>

ReadFile_drops_unlabelled(w) ==
    /\ scan.phase = "running"
    /\ scan.w[w].pc = "read"
    /\ scan' = [scan EXCEPT !.w[w].pc =
                   IF local_labels(scan.w[w].file) # <<>> THEN "lock_acc"
                   ELSE "idle"]
    /\ UNCHANGED <<call, ret, cfg, files, images, pc, idx, ctx, coco, outfs, log, io, result>>

\* read_to_string, the JSON parse and the local result; a file that yields
\* no label skips the merge, and the counter is touched only with an emitter
ReadFile(w) ==
    /\ scan.phase = "running"
    /\ scan.w[w].pc = "read"
    /\ scan' = [scan EXCEPT !.w[w].pc =
                   IF local_labels(scan.w[w].file) # <<>> THEN "lock_acc"
                   ELSE IF call.progress THEN "lock_processed"
                   ELSE "idle"]
    /\ UNCHANGED <<call, ret, cfg, files, images, pc, idx, ctx, coco, outfs, log, io, result>>

Lock_without_waiting(w) ==
    /\ scan.phase = "running"
    /\ \/ /\ scan.w[w].pc = "lock_acc"
          /\ scan' = [scan EXCEPT !.acc_mutex = w, !.w[w].pc = "merge"]
       \/ /\ scan.w[w].pc = "lock_processed"
          /\ scan' = [scan EXCEPT !.processed_mutex = w, !.w[w].pc = "count"]
    /\ UNCHANGED <<call, ret, cfg, files, images, pc, idx, ctx, coco, outfs, log, io, result>>

\* labels.lock() (label_counts.lock()) and processed.lock(): the worker
\* waits until the mutex is free
Lock(w) ==
    /\ scan.phase = "running"
    /\ \/ /\ scan.w[w].pc = "lock_acc"
          /\ scan.acc_mutex = 0
          /\ scan' = [scan EXCEPT !.acc_mutex = w, !.w[w].pc = "merge"]
       \/ /\ scan.w[w].pc = "lock_processed"
          /\ scan.processed_mutex = 0
          /\ scan' = [scan EXCEPT !.processed_mutex = w, !.w[w].pc = "count"]
    /\ UNCHANGED <<call, ret, cfg, files, images, pc, idx, ctx, coco, outfs, log, io, result>>

Critical_without_final(w) ==
    /\ scan.phase = "running"
    /\ \/ /\ scan.w[w].pc = "merge"
          /\ LET local == local_labels(scan.w[w].file)
                 local_counts == [l \in Range(local) |->
                                     Cardinality({i \in DOMAIN local : local[i] = l})]
                 merged == IF call.fn = "scan_labels"
                           THEN scan.acc \cup Range(local)
                           ELSE [l \in DOMAIN scan.acc \cup DOMAIN local_counts |->
                                    (IF l \in DOMAIN scan.acc THEN scan.acc[l] ELSE 0)
                                    + (IF l \in DOMAIN local_counts
                                       THEN local_counts[l] ELSE 0)]
             IN scan' = [scan EXCEPT !.acc = merged, !.acc_mutex = 0,
                                     !.w[w].pc = IF call.progress
                                                 THEN "lock_processed" ELSE "idle"]
       \/ /\ scan.w[w].pc = "count"
          /\ LET count == scan.processed + 1
             IN scan' = [scan EXCEPT
                    !.processed = count,
                    !.events = IF count % Cadence = 0
                               THEN Append(@, [current |-> count, total |-> scan.total,
                                               message |-> "file"])
                               ELSE @,
                    !.processed_mutex = 0,
                    !.w[w] = [pc |-> "idle", file |-> "none"]]
    /\ UNCHANGED <<call, ret, cfg, files, images, pc, idx, ctx, coco, outfs, log, io, result>>

\* what a worker does under the mutex it holds, up to the drop of the guard:
\* the merge of its local result, or the count and the progress event
Critical(w) ==
    /\ scan.phase = "running"
    /\ \/ /\ scan.w[w].pc = "merge"
          /\ LET local == local_labels(scan.w[w].file)
                 local_counts == [l \in Range(local) |->
                                     Cardinality({i \in DOMAIN local : local[i] = l})]
                 merged == IF call.fn = "scan_labels"
                           THEN scan.acc \cup Range(local)
                           ELSE [l \in DOMAIN scan.acc \cup DOMAIN local_counts |->
                                    (IF l \in DOMAIN scan.acc THEN scan.acc[l] ELSE 0)
                                    + (IF l \in DOMAIN local_counts
                                       THEN local_counts[l] ELSE 0)]
             IN scan' = [scan EXCEPT !.acc = merged, !.acc_mutex = 0,
                                     !.w[w].pc = IF call.progress
                                                 THEN "lock_processed" ELSE "idle"]
       \/ /\ scan.w[w].pc = "count"
          /\ LET count == scan.processed + 1
             IN scan' = [scan EXCEPT
                    !.processed = count,
                    !.events = IF count % Cadence = 0 \/ count = scan.total
                               THEN Append(@, [current |-> count, total |-> scan.total,
                                               message |-> "file"])
                               ELSE @,
                    !.processed_mutex = 0,
                    !.w[w] = [pc |-> "idle", file |-> "none"]]
    /\ UNCHANGED <<call, ret, cfg, files, images, pc, idx, ctx, coco, outfs, log, io, result>>

\* after for_each has returned: the accumulator is taken out, the labels are
\* sorted, the completion event is emitted and the result returned
ScanFinish ==
    /\ scan.phase = "running"
    /\ \A kind \in DOMAIN scan.todo : scan.todo[kind] = 0
    /\ \A w \in DOMAIN scan.w : scan.w[w].pc = "idle"
    /\ ret' = [done |-> TRUE,
               val |-> Ok(IF call.fn = "scan_labels"
                          THEN SelectSeq(SortedLabels, LAMBDA l : l \in scan.acc)
                          ELSE scan.acc)]
    /\ scan' = [scan EXCEPT
           !.phase = "done",
           !.events = IF call.progress
                      THEN Append(@, [current |-> 100, total |-> 100,
                                      message |-> "complete"])
                      ELSE @]
    /\ UNCHANGED <<call, cfg, files, images, pc, idx, ctx, coco, outfs, log, io, result>>

InitScan ==
    /\ \E fn \in {"scan_labels", "scan_counts"}, progress \in BOOLEAN, exists \in BOOLEAN,
          plain \in {0, Cadence - 1}, pair \in 0..MaxExtra, bad \in 0..MaxExtra,
          loose \in 0..MaxExtra :
          /\ pair + bad + loose <= MaxExtra
          /\ ~exists => plain + pair + bad + loose = 0
          /\ call = [fn |-> fn, progress |-> progress, exists |-> exists,
                     dir |-> [plain |-> plain, pair |-> pair, bad |-> bad,
                              loose |-> loose]]
    /\ ret = IdleRet
    /\ InitIdleRun

NextScan ==
    \/ ScanStart
    \/ \E w \in 1..MaxWorkers : TakeFile(w) \/ ReadFile(w) \/ Lock(w) \/ Critical(w)
    \/ ScanFinish

\* every worker of the pool keeps running and a mutex that is held is
\* released by its holder, so a scan that can take a step takes one
SpecScan == InitScan /\ [][NextScan]_vars /\ WF_vars(NextScan)

----------------------------------------------------------------------------
\* Properties

\* the validation table as stated: the verdict on a shape of n points
ExpectedValidation(n, fmt) ==
    IF n = 0 THEN Err(EmptyPoints)
    ELSE IF fmt = "Bbox2Point"
    THEN (IF n = 2 THEN Ok("unit") ELSE Err(PointsCountMismatch("Bbox2Point", n)))
    ELSE IF fmt = "Bbox4Point"
    THEN (IF n = 4 THEN Ok("unit") ELSE Err(PointsCountMismatch("Bbox4Point", n)))
    ELSE IF fmt = "Polygon"
    THEN (IF n >= 3 THEN Ok("unit") ELSE Err(PointsCountMismatch("Polygon", n)))
    ELSE (IF n >= 2 THEN Ok("unit") ELSE Err(InsufficientPoints))

\* C1: validate_shape_points follows the table (0 points: EmptyPoints;
\* Bbox2Point iff 2 points, Bbox4Point iff 4, Polygon iff at least 3, each
\* rejection a PointsCountMismatch with the format and the count; Unknown iff
\* at least 2, rejection InsufficientPoints), and the shape loops of the YOLO
\* and the COCO writer apply the same verdict to every shape whose label is in
\* the label map: a rejected shape yields exactly the invalid record of the
\* table and no output, a shape the table accepts is never recorded with a
\* point-count reason.
C1_ValidationTable ==
    ret.done =>
        LET e == ExpectedValidation(Len(call.shape.points), call.input_format)
            accepted == call.shape.label \in DOMAIN CatOnly
            record == InvalidAnnotation("f1", call.shape, e.reason)
        IN CASE call.fn = "validate_shape_points" -> ret.val = e
             [] call.fn = "yolo_shapes" ->
                  IF ~accepted
                  THEN ret.val.invalid_annotations = <<>> /\ ret.val.yolo_lines = <<>>
                  ELSE IF ~e.ok
                  THEN /\ ret.val.invalid_annotations = <<record>>
                       /\ ret.val.yolo_lines = <<>>
                  ELSE \/ /\ ret.val.invalid_annotations = <<>>
                          /\ Len(ret.val.yolo_lines) = 1
                       \/ /\ Len(ret.val.invalid_annotations) = 1
                          /\ ret.val.invalid_annotations[1].reason = ZeroArea
                          /\ ret.val.yolo_lines = <<>>
             [] call.fn = "coco_shapes" ->
                  IF ~accepted
                  THEN ret.val.invalid_annotations = <<>> /\ ret.val.coco_annotations = <<>>
                  ELSE IF ~e.ok
                  THEN /\ ret.val.invalid_annotations = <<record>>
                       /\ ret.val.coco_annotations = <<>>
                  ELSE ret.val.invalid_annotations = <<>>
             [] OTHER -> TRUE

\* C1 witness: a 3-point shape with an accepted label under Polygon went
\* through the YOLO shape loop and produced a line.
C1_Witness ==
    /\ ret.done
    /\ call.fn = "yolo_shapes"
    /\ call.input_format = "Polygon"
    /\ Len(call.shape.points) = 3
    /\ call.shape.label = "cat"
    /\ Len(ret.val.yolo_lines) = 1

\* the histogram's counts and the decision as stated
HistTotal(hist) == SumOver(hist, DOMAIN hist)

Hist3Plus(hist) == SumOver(hist, {k \in DOMAIN hist : k >= 3})

DistinctCounts3Plus(hist) == Cardinality({k \in DOMAIN hist : k >= 3 /\ hist[k] > 0})

\* count / total >= t, and count / total > 1/2
Reaches(count, total, t) == count * t[2] >= t[1] * total

SameRatio(r, count, total) == r[1] * total = count * r[2]

FourSteps(hist, t, val) ==
    LET total == HistTotal(hist)
        c2 == hist[2]
        c4 == hist[4]
        c3 == Hist3Plus(hist)
        m == Max(Max(c2, c4), c3)
    IN IF Reaches(c2, total, t)
       THEN val.input_format = "Bbox2Point" /\ SameRatio(val.confidence, c2, total)
       ELSE IF Reaches(c4, total, t)
       THEN val.input_format = "Bbox4Point" /\ SameRatio(val.confidence, c4, total)
       ELSE IF Reaches(c3, total, t)
       THEN val.input_format = (IF DistinctCounts3Plus(hist) > 1 THEN "Polygon"
                                ELSE IF 2 * c4 > total THEN "Bbox4Point"
                                ELSE "Polygon")
       ELSE val.input_format = "Unknown" /\ SameRatio(val.confidence, m, total)

AllHave(hist, n) == hist[n] > 0 /\ \A k \in DOMAIN hist : k # n => hist[k] = 0

Varying3Plus(hist) ==
    /\ \A k \in DOMAIN hist : k < 3 => hist[k] = 0
    /\ DistinctCounts3Plus(hist) > 1

\* C2 as claimed: the four-step decision in its order, and in particular all
\* 2 points gives Bbox2Point, all 4 points gives Bbox4Point, and every sample
\* of varying counts >= 3 gives Polygon.
C2_AsClaimed ==
    (ret.done /\ HistTotal(call.hist) > 0) =>
        /\ FourSteps(call.hist, call.threshold, ret.val)
        /\ call.fn = "detect_input_format" =>
              /\ AllHave(call.hist, 2) => ret.val.input_format = "Bbox2Point"
              /\ AllHave(call.hist, 4) => ret.val.input_format = "Bbox4Point"
              /\ Varying3Plus(call.hist) => ret.val.input_format = "Polygon"

\* C2: the four-step decision in its order for every non-empty histogram and
\* threshold; in particular all 2 points gives Bbox2Point, all 4 points gives
\* Bbox4Point, and varying counts >= 3 give Polygon when the 4-point shapes
\* alone stay below the threshold (step 2 comes before step 3).
C2_FourStepDecision ==
    (ret.done /\ HistTotal(call.hist) > 0) =>
        /\ FourSteps(call.hist, call.threshold, ret.val)
        /\ call.fn = "detect_input_format" =>
              /\ AllHave(call.hist, 2) => ret.val.input_format = "Bbox2Point"
              /\ AllHave(call.hist, 4) => ret.val.input_format = "Bbox4Point"
              /\ (/\ Varying3Plus(call.hist)
                  /\ ~Reaches(call.hist[4], HistTotal(call.hist), call.threshold))
                 => ret.val.input_format = "Polygon"

\* C2 witness: step 3 decided a sample with two distinct counts >= 3, some
\* shapes outside the three ratios, at the default threshold.
C2_Witness ==
    /\ ret.done
    /\ call.fn = "analyze_shapes"
    /\ call.threshold = <<4, 5>>
    /\ call.hist[1] > 0
    /\ call.hist[4] > 0
    /\ DistinctCounts3Plus(call.hist) > 1
    /\ ret.val.input_format = "Polygon"

SplitOfPath(key, val_size, test_size) ==
    LET r == hash_string(key) % 1000
    IN IF r < val_size THEN "val" ELSE IF r < val_size + test_size THEN "test" ELSE "train"

\* C4: split determinism.  Whatever a handled file put into a split directory
\* or a split's document went to the split that its resolved image path and
\* (val_size, test_size) alone determine; neither the walk order, nor the
\* other files, nor the labels and shapes, nor the seed take part.
C4_SplitDeterminism ==
    cfg.output_format # "LabelMe" =>
        \A i \in DOMAIN log :
            log[i].placed \subseteq {SplitOfPath(log[i].key, cfg.val_size, cfg.test_size)}

\* C4 witness: under a seed other than the default, the second file of a walk
\* went to test after the first went to val.
C4_Witness ==
    /\ cfg.seed = 7
    /\ Len(log) = 2
    /\ log[1].placed = {"val"}
    /\ log[2].placed = {"test"}

\* C5 as claimed: in every pipeline a file whose image key was already taken
\* by an earlier file of the run copies no image, writes or rewrites no label
\* file or annotation entry, and adds nothing to the annotation counts.
C5_DuplicateSkipped ==
    \A i \in DOMAIN log :
        log[i].duplicate =>
            /\ ~log[i].wrote
            /\ log[i].annotations = 0
            /\ log[i].skipped = 0

\* what the environment did to the file of a log entry: no readable JSON, no
\* image to take, or a failing copy or write
ImageAvailable(f) ==
    f.image_data # "none" \/ resolve_image_path(f.json, f.image_path) \in Range(images)

IoFailure(e) ==
    LET f == files[e.file] IN
    \/ ~f.readable
    \/ /\ cfg.output_format = "Yolo"
       /\ ~ImageAvailable(f) \/ e.fault # "none"
    \/ /\ cfg.output_format = "Coco"
       /\ ~ImageAvailable(f) \/ e.fault = "copy"
    \/ /\ cfg.output_format = "LabelMe"
       /\ ~e.duplicate
       /\ \/ e.fault = "write"
          \/ e.fault = "copy" /\ resolve_image_path(f.json, f.image_path) \in Range(images)

\* C6: every JSON file is handled exactly once, in walk order, and ends in
\* exactly one counted outcome; a read, image or write failure marks that file
\* failed (one error entry) and the loop goes on; the run ends only after the
\* last file, with processed + skipped + failed = total_files, in each of the
\* three pipelines.
C6_PerFileStateMachine ==
    /\ Len(log) = idx
    /\ idx <= Len(files)
    /\ \A i \in DOMAIN log :
          /\ log[i].file = i
          /\ log[i].processed + log[i].failed = 1
          /\ log[i].failed = (IF IoFailure(log[i]) THEN 1 ELSE 0)
          /\ log[i].new_errors = log[i].failed
    /\ ctx.stats.processed_files + ctx.stats.skipped_files + ctx.stats.failed_files = idx
    /\ (pc = "done" /\ result.success) =>
          /\ idx = Len(files)
          /\ result.stats.total_files = Len(files)
    /\ pc = "done" =>
          result.stats.processed_files + result.stats.skipped_files
              + result.stats.failed_files = result.stats.total_files

\* C6 witness: a run ended after its first file failed and its second file
\* was processed.
C6_Witness ==
    /\ pc = "done"
    /\ Len(log) = 2
    /\ log[1].failed = 1
    /\ log[2].processed = 1
    /\ result.stats.failed_files = 1
    /\ result.stats.processed_files = 1

\* C7: convert returns success = false only when validation fails or the
\* output directories cannot be created; every other run returns success =
\* true with the output directory set, also when files failed or a final
\* document could not be written, and each such failure is an entry of errors.
C7_TopLevelSuccess ==
    pc = "done" =>
        /\ result.returned
        /\ ~result.success <=> (~validate(cfg).ok \/ outfs.dirs = {})
        /\ result.success =>
              /\ result.output_dir # ""
              /\ result.stats.failed_files
                    = Cardinality({i \in DOMAIN log : ~log[i].ok})
              /\ Len(result.errors) >= result.stats.failed_files
              /\ Len(result.errors) - result.stats.failed_files
                    <= Cardinality(FinalWrites(cfg))

\* C7 witness: both files of a run failed and a final document could not be
\* written, and the run is reported successful.
C7_Witness ==
    /\ pc = "done"
    /\ result.success
    /\ Len(files) = 2
    /\ result.stats.failed_files = 2
    /\ Len(result.errors) = 3

\* C8 as claimed: a configuration that fails validation makes convert return
\* the failure result before any input file is read and before any output
\* directory or file is created; a valid configuration gives no such error.
C8_FailFast ==
    pc = "done" =>
        IF validate(cfg).ok
        THEN result.success \/ result.errors = <<"Failed to create output directories">>
        ELSE /\ result = failure(<<validate(cfg).reason>>)
             /\ outfs = EmptyFs
             /\ io = 0

\* the shapes of a file by what the writers make of them
Accepted(shape) == cfg.label_list = <<>> \/ shape.label \in Range(cfg.label_list)

WrongPoints(shape) ==
    ~ExpectedValidation(Len(shape.points), cfg.detected_input_format.val).ok

ZeroBbox(f, shape) ==
    ~WrongPoints(shape) /\ ~calculate_bbox(shape, f.image_width, f.image_height).some

NoCocoGeometry(shape) ==
    ~WrongPoints(shape)
    /\ ~shape_to_coco_annotation(shape, 1, 1, 1, cfg).some

\* the entries of the log whose file went through the shape loop of the
\* label-format (YOLO) or style-format (COCO) writer
Written(e) == e.ok /\ cfg.output_format \in {"Yolo", "Coco"}

\* C9 as claimed: in both writers every accepted shape that fails validation
\* (wrong point count, empty points, zero area) is recorded as invalid and
\* counted in skipped_annotations.
C9_AsClaimed ==
    \A i \in DOMAIN log :
        Written(log[i]) =>
            LET f == files[log[i].file]
                Invalid(shape) ==
                    /\ Accepted(shape)
                    /\ \/ WrongPoints(shape)
                       \/ cfg.output_format = "Yolo" /\ cfg.annotation_format = "Bbox"
                          /\ ZeroBbox(f, shape)
                       \/ cfg.output_format = "Coco" /\ NoCocoGeometry(shape)
                Refused(shape) == ~Accepted(shape)
            IN /\ log[i].invalid = Cardinality({k \in DOMAIN f.shapes : Invalid(f.shapes[k])})
               /\ log[i].skipped = Cardinality({k \in DOMAIN f.shapes : Invalid(f.shapes[k])}) + Cardinality({k \in DOMAIN f.shapes : Refused(f.shapes[k])})

\* C9: an accepted shape with a wrong point count or no points, in both
\* writers, and one whose clamped bounding box has no area, in the YOLO writer
\* in bounding-box mode, is recorded as invalid and counted in
\* skipped_annotations; a shape the COCO writer finds without area is dropped
\* without record or count.  No shape adds an error or fails its file: a file
\* is processed exactly when its read, image and write succeed, whatever its
\* shapes.
C9_InvalidShapesNotFatal ==
    \A i \in DOMAIN log :
        /\ cfg.output_format \in {"Yolo", "Coco"} => log[i].ok = ~IoFailure(log[i])
        /\ Written(log[i]) =>
            LET f == files[log[i].file]
                Invalid(shape) ==
                    /\ Accepted(shape)
                    /\ \/ WrongPoints(shape)
                       \/ cfg.output_format = "Yolo" /\ cfg.annotation_format = "Bbox"
                          /\ ZeroBbox(f, shape)
                Refused(shape) == ~Accepted(shape)
            IN /\ log[i].invalid = Cardinality({k \in DOMAIN f.shapes : Invalid(f.shapes[k])})
               /\ log[i].skipped = Cardinality({k \in DOMAIN f.shapes : Invalid(f.shapes[k])}) + Cardinality({k \in DOMAIN f.shapes : Refused(f.shapes[k])})
               /\ log[i].new_errors = 0
               /\ log[i].processed = 1

\* C9 witness: the YOLO writer in bounding-box mode processed a file whose two
\* shapes are both invalid, one without area and one without points.
C9_Witness ==
    /\ cfg.output_format = "Yolo"
    /\ cfg.annotation_format = "Bbox"
    /\ \E i \in DOMAIN log :
          /\ log[i].ok
          /\ log[i].invalid = 2
          /\ log[i].skipped = 2
          /\ log[i].annotations = 0
          /\ \E r \in Range(ctx.stats.invalid_annotations) : r.reason = ZeroArea
          /\ \E r \in Range(ctx.stats.invalid_annotations) : r.reason = EmptyPoints

\* the entries of the log whose file went through the shape loop or filter
Handled(e) == e.ok /\ ~(cfg.output_format = "LabelMe" /\ e.duplicate)

LabelsOfFiles ==
    UNION {{f.shapes[i].label : i \in DOMAIN f.shapes} :
              f \in {g \in Range(files) : g.readable}}

\* C11 as claimed: with deterministic_labels and an empty label_list, in each
\* of the three output formats, the label map at the end of a run is the set
\* of all labels of the JSON files, sorted alphabetically and numbered from 0,
\* so that it is the same for every walk order of the same files.
C11_DeterministicLabels ==
    (pc = "done" /\ result.success /\ cfg.deterministic_labels /\ cfg.label_list = <<>>) =>
        /\ DOMAIN ctx.label_map = LabelsOfFiles
        /\ \A l \in LabelsOfFiles :
              ctx.label_map[l] = Cardinality({m \in LabelsOfFiles : Rank(m) < Rank(l)})

\* the labels met by the single pass so far, in the order met: the shapes of
\* every file read, except the files the LabelMe writer skips as duplicates
RECURSIVE MetLabels(_)
MetLabels(n) ==
    IF n = 0 THEN <<>>
    ELSE MetLabels(n - 1) \o
         (IF log[n].read /\ ~(cfg.output_format = "LabelMe" /\ log[n].duplicate)
          THEN [k \in DOMAIN files[log[n].file].shapes |-> files[log[n].file].shapes[k].label]
          ELSE <<>>)

FirstAt(seq, l) == CHOOSE i \in DOMAIN seq : seq[i] = l /\ \A j \in 1..(i - 1) : seq[j] # l

\* C12: with an empty label_list and deterministic_labels = false, at every
\* point of the run the label map holds exactly the labels met so far, the
\* k-th distinct label met having id k-1 (so an id once given never changes),
\* and asking again for a label that has an id changes nothing.
C12_IncrementalLabels ==
    (cfg.label_list = <<>> /\ ~cfg.deterministic_labels) =>
        LET met == MetLabels(Len(log)) IN
        /\ DOMAIN ctx.label_map = Range(met)
        /\ \A l \in Range(met) :
              ctx.label_map[l] = Cardinality({met[j] : j \in 1..(FirstAt(met, l) - 1)})
        /\ \A l \in DOMAIN ctx.label_map : ensure_label(ctx.label_map, l) = ctx.label_map

\* C12 witness: a LabelMe run met cat and dog in its first file and cat again
\* in its second; cat kept id 0 and dog id 1.
C12_Witness ==
    /\ cfg.label_list = <<>>
    /\ ~cfg.deterministic_labels
    /\ cfg.output_format = "LabelMe"
    /\ Len(log) = 2
    /\ MetLabels(2) = <<"cat", "dog", "cat", "cat">>
    /\ ctx.label_map = [l \in {"cat", "dog"} |-> IF l = "cat" THEN 0 ELSE 1]

\* whether the COCO writer emits an annotation for a shape: its label is
\* accepted, its point count is valid and it has a geometry with area
EmitsCoco(shape) ==
    /\ Accepted(shape)
    /\ ~WrongPoints(shape)
    /\ shape_to_coco_annotation(shape, 1, 1, 1, cfg).some

\* the annotations a COCO run has to emit for the first n files handled, in
\* emission order: the file and the label of every emitting shape
RECURSIVE ExpectedAnnotations(_)
ExpectedAnnotations(n) ==
    IF n = 0 THEN <<>>
    ELSE ExpectedAnnotations(n - 1) \o
         (IF log[n].ok
          THEN LET f == files[log[n].file]
                   e == SelectSeq(f.shapes, EmitsCoco)
               IN [k \in DOMAIN e |-> [json |-> f.json, label |-> e[k].label]]
          ELSE <<>>)

\* C17: in a COCO run, over all files and the three split documents together,
\* the k-th annotation emitted has id start_annotation_id + k - 1, with no gap
\* and no repeat (a shape that emits nothing consumes no id), belongs to the
\* image entry of its file, and has category id = label-map id of its label + 1.
C17_AnnotationIds ==
    (cfg.output_format = "Coco" /\ log # <<>>) =>
        LET exp == ExpectedAnnotations(Len(log))
            anns == coco.Train.annotations \o coco.Val.annotations \o coco.Test.annotations
            imgs == coco.Train.images \o coco.Val.images \o coco.Test.images
        IN /\ Len(anns) = Len(exp)
           /\ coco.annotation_id_counter = cfg.start_annotation_id + Len(exp)
           /\ \A k \in DOMAIN exp :
                 \E a \in Range(anns) :
                    /\ a.id = cfg.start_annotation_id + k - 1
                    /\ a.category_id = ctx.label_map[exp[k].label] + 1
                    /\ \E im \in Range(imgs) : im.id = a.image_id /\ im.by = exp[k].json
           /\ \A s \in {"Train", "Val", "Test"} :
                 \A i, j \in DOMAIN coco[s].annotations :
                    i < j => coco[s].annotations[i].id < coco[s].annotations[j].id

\* C17 witness: with ids starting at 7, the first file held shapes but emitted
\* nothing and the second file emitted the annotations 7 and 8, with the
\* category ids of cat (1) and dog (2).
C17_Witness ==
    /\ cfg.output_format = "Coco"
    /\ cfg.start_annotation_id = 7
    /\ Len(log) = 2
    /\ log[1].ok /\ files[1].shapes # <<>> /\ log[1].annotations = 0
    /\ log[2].ok /\ log[2].annotations = 2
    /\ coco.annotation_id_counter = 9
    /\ \E s \in {"Train", "Val", "Test"} :
          /\ Len(coco[s].annotations) = 2
          /\ coco[s].annotations[1].id = 7 /\ coco[s].annotations[1].category_id = 1
          /\ coco[s].annotations[2].id = 8 /\ coco[s].annotations[2].category_id = 2

\* a shape whose converted polygon has no area: a rectangle with two corners
\* on one horizontal or vertical line, a circle of radius 0, a polygon whose
\* shoelace sum is 0 (or that has fewer than 3 points)
ZeroAreaShape(shape) ==
    CASE shape.shape_type = "rectangle" /\ Len(shape.points) >= 2 ->
            \/ shape.points[1][1] = shape.points[2][1]
            \/ shape.points[1][2] = shape.points[2][2]
      [] shape.shape_type = "circle" /\ Len(shape.points) >= 2 ->
            shape.points[1] = shape.points[2]
      [] shape.shape_type = "polygon" -> calculate_polygon_area(shape.points)[1] = 0
      [] OTHER -> FALSE

\* C18: in a COCO run a shape that passes the point-count validation but whose
\* converted polygon has area <= 0 produces no annotation and no
\* invalid-annotation record (only wrong point counts are recorded), and the
\* file that holds it is still counted as processed.
C18_ZeroAreaDropped ==
    cfg.output_format = "Coco" =>
        /\ \A r \in Range(ctx.stats.invalid_annotations) : r.reason # ZeroArea
        /\ \A i \in DOMAIN log :
              log[i].ok =>
                 LET f == files[log[i].file]
                     Dropped(shape) ==
                         Accepted(shape) /\ ~WrongPoints(shape) /\ ZeroAreaShape(shape)
                     Recorded(shape) == Accepted(shape) /\ WrongPoints(shape)
                     Refused(shape) == ~Accepted(shape)
                 IN /\ log[i].invalid = Cardinality({k \in DOMAIN f.shapes : Recorded(f.shapes[k])})
                    /\ log[i].annotations <= Len(f.shapes) - Cardinality({k \in DOMAIN f.shapes : Recorded(f.shapes[k]) \/ Refused(f.shapes[k]) \/ Dropped(f.shapes[k])})
                    /\ log[i].processed = 1
                    /\ log[i].new_errors = 0

\* C18 witness: the COCO writer processed the file with a flat rectangle and a
\* shape without points: the second is the only invalid record, nothing was
\* emitted, the file counts as processed.
C18_Witness ==
    /\ cfg.output_format = "Coco"
    /\ \E i \in DOMAIN log :
          /\ log[i].ok
          /\ \E k \in DOMAIN files[log[i].file].shapes :
                LET shape == files[log[i].file].shapes[k]
                IN Accepted(shape) /\ ~WrongPoints(shape) /\ ZeroAreaShape(shape)
          /\ log[i].invalid = 1
          /\ log[i].annotations = 0
          /\ log[i].processed = 1

\* the image keys that the readable JSON files of the run refer to
Referenced == {resolve_image_path(f.json, f.image_path) : f \in {g \in Range(files) : g.readable}}

\* C19 as claimed: at the end of a YOLO run with include_background, an image
\* file under the input directory is background (a copy in the split its path
\* hashes to, an empty label file next to it, counted in background_images)
\* exactly when no JSON file referred to it and its copy succeeded; an image a
\* JSON file referred to is never counted and the label file written for it
\* (looked at where it holds annotation lines) is never replaced by an empty
\* one.
C19_Background ==
    (pc = "done" /\ result.success /\ cfg.output_format = "Yolo" /\ cfg.include_background) =>
        LET copied(img) == \E i \in outfs.images : i.src = img
            dirs(img) == get_split_dirs(outfs.dirs, split_of(img, cfg))
            empty_label(d, stem) ==
                \E l \in outfs.labels : l.dir = d /\ l.stem = stem /\ l.by.dir = "background"
        IN /\ Range(result.stats.background_files) \cap Referenced = {}
           /\ result.stats.background_images = Len(result.stats.background_files)
           /\ \A img \in Range(images) \ Referenced :
                 copied(img) =>
                    /\ img \in Range(result.stats.background_files)
                    /\ \E i \in outfs.images : i.src = img /\ i.dir = dirs(img).images
                    /\ empty_label(dirs(img).labels, img.stem)
           /\ \A i \in DOMAIN log :
                 (log[i].ok /\ log[i].annotations > 0)
                    => ~empty_label(dirs(log[i].key).labels, log[i].key.stem)

\* C20: filter_shapes with an empty label_list keeps all shapes, reports 0
\* skipped and registers every label met; with a non-empty list it keeps
\* exactly the shapes whose label is in the list, in their order, registers
\* only kept labels, records each dropped label as skipped, and kept count +
\* skipped count = number of shapes.  Labels that had an id keep it.
C20_FilterShapes ==
    (ret.done /\ call.fn = "filter_shapes") =>
        LET labels(q) == {q[k].label : k \in DOMAIN q}
            kept == IF call.label_list = <<>> THEN call.shapes
                    ELSE SelectSeq(call.shapes,
                                   LAMBDA x : x.label \in Range(call.label_list))
        IN /\ ret.val.filtered = kept
           /\ ret.val.skipped = Len(call.shapes) - Len(kept)
           /\ call.label_list = <<>> => ret.val.skipped = 0
           /\ DOMAIN ret.val.label_map = DOMAIN call.label_map \cup labels(kept)
           /\ \A l \in DOMAIN call.label_map : ret.val.label_map[l] = call.label_map[l]
           /\ ret.val.skipped_labels =
                 call.skipped_labels \cup (labels(call.shapes) \ labels(kept))

\* C20 witness: under the list <<"cat">> and an empty context the shapes cat,
\* dog, cat were filtered: both cats kept in order, one skipped, only cat
\* registered, dog recorded as skipped.
C20_Witness ==
    /\ ret.done
    /\ call.fn = "filter_shapes"
    /\ call.label_list = <<"cat">>
    /\ call.label_map = <<>>
    /\ call.shapes = <<Sh("cat", "rectangle", Rect), Sh("dog", "rectangle", Rect),
                       Sh("cat", "polygon", Triangle)>>
    /\ ret.val.filtered = <<Sh("cat", "rectangle", Rect), Sh("cat", "polygon", Triangle)>>
    /\ ret.val.skipped = 1
    /\ DOMAIN ret.val.label_map = {"cat"}
    /\ "dog" \in ret.val.skipped_labels

\* the result of a scan folded one file at a time over the files that are
\* not bad: for each label the number of shapes that carry it
FoldCounts(dir) ==
    LET occ(kind, l) == Cardinality({i \in DOMAIN local_labels(kind) :
                                        local_labels(kind)[i] = l})
        n(l) == dir.plain * occ("plain", l) + dir.pair * occ("pair", l)
                + dir.loose * occ("loose", l)
    IN [l \in {x \in Range(SortedLabels) : n(x) > 0} |-> n(l)]

\* the result a finished scan returned is the one the counts c stand for
ScanReturned(c) ==
    /\ ret.done
    /\ ret.val.ok
    /\ ret.val.val = IF call.fn = "scan_labels"
                     THEN SelectSeq(SortedLabels, LAMBDA l : l \in DOMAIN c)
                     ELSE c

\* C13: under every interleaving of the workers the label scan returns the
\* sorted set of labels of the readable JSON files and the count scan the
\* sum of each label's occurrences, the same results the one-file-at-a-time
\* scan (scan_labelme_labels_with_counts) gives.
C13_ParallelEqualsSequential ==
    (call.fn \in {"scan_labels", "scan_counts"} /\ call.exists /\ ret.done) =>
        /\ ScanReturned(FoldCounts(call.dir))
        /\ ScanReturned(scan_labelme_labels_with_counts(call.dir))

\* the values of the per-file events a scan has emitted so far
FileEvents ==
    LET ev == SelectSeq(scan.events, LAMBDA e : e.message = "file")
    IN [i \in DOMAIN ev |-> ev[i].current]

\* the counter values up to n that call for an event, in increasing order
RECURSIVE CadenceValues(_, _)
CadenceValues(n, total) ==
    IF n = 0 THEN <<>>
    ELSE IF n % Cadence = 0 \/ n = total
    THEN Append(CadenceValues(n - 1, total), n)
    ELSE CadenceValues(n - 1, total)

\* C14: in a scan of N > 0 files with a progress emitter the counter is the
\* number of completed files, the per-file events emitted are exactly those
\* for the counter values passed that are multiples of 100 or equal N, once
\* each and in increasing order, and at the end the event with current = N
\* has been emitted and is followed by the single completion event.
C14_ProgressCadence ==
    (call.fn \in {"scan_labels", "scan_counts"} /\ call.progress
        /\ scan.phase \in {"running", "done"} /\ scan.total > 0) =>
        /\ scan.processed + scan.todo.plain + scan.todo.pair + scan.todo.bad
              + scan.todo.loose
              + Cardinality({w \in DOMAIN scan.w : scan.w[w].pc # "idle"}) = scan.total
        /\ FileEvents = CadenceValues(scan.processed, scan.total)
        /\ scan.phase = "running" =>
              \A i \in DOMAIN scan.events : scan.events[i].message # "complete"
        /\ scan.phase = "done" =>
              LET n == Len(scan.events)
              IN /\ scan.processed = scan.total
                 /\ n >= 3
                 /\ scan.events[n].message = "complete"
                 /\ scan.events[n - 1] = [current |-> scan.total, total |-> scan.total,
                                          message |-> "file"]
                 /\ \A i \in 1..(n - 1) : scan.events[i].message # "complete"

\* C14 witness: a scan of 101 files with an emitter has finished with the
\* events start, 100, 101, completion.
C14_Witness ==
    /\ call.fn = "scan_counts"
    /\ call.progress
    /\ scan.phase = "done"
    /\ scan.total = Cadence + 1
    /\ FileEvents = <<Cadence, Cadence + 1>>
    /\ Len(scan.events) = 4
    /\ scan.events[4].message = "complete"

\* C15 as stated: the accumulator is the only mutable state the workers
\* share, and a mutex is held only for the merge step: no step of a running
\* scan changes the processed counter, and a held mutex is the accumulator's.
C15_OnlyAccumulatorShared ==
    [][(scan.phase = "running" /\ scan'.phase = "running") =>
          /\ scan'.processed = scan.processed
          /\ scan'.processed_mutex = 0]_vars

\* C15: during a scan the accumulator and the processed counter are the
\* mutable state the workers share; each is changed only by a step of the
\* worker that holds its mutex; no worker holds a mutex while it reads or
\* parses a file; the accumulator's mutex is held only for the merge step
\* and the counter's only for the count and its progress event.
C15_LockDiscipline ==
    /\ [](scan.phase = "running" =>
             \A w \in DOMAIN scan.w :
                /\ scan.w[w].pc = "read" =>
                      scan.acc_mutex # w /\ scan.processed_mutex # w
                /\ scan.acc_mutex = w <=> scan.w[w].pc = "merge"
                /\ scan.processed_mutex = w <=> scan.w[w].pc = "count")
    /\ [][(scan.phase = "running" /\ scan'.phase = "running") =>
             /\ scan'.acc # scan.acc =>
                   \E w \in DOMAIN scan.w :
                      /\ scan.acc_mutex = w
                      /\ scan.w[w].pc = "merge"
                      /\ \A v \in DOMAIN scan.w \ {w} : scan'.w[v] = scan.w[v]
             /\ (scan'.processed # scan.processed \/ scan'.events # scan.events) =>
                   \E w \in DOMAIN scan.w :
                      /\ scan.processed_mutex = w
                      /\ scan.w[w].pc = "count"
                      /\ \A v \in DOMAIN scan.w \ {w} : scan'.w[v] = scan.w[v]]_vars

\* C15 witness: one worker holds the counter's mutex after a merge has
\* filled the accumulator, while the other worker reads a file.
C15_Witness ==
    /\ call.fn = "scan_counts"
    /\ scan.phase = "running"
    /\ scan.processed_mutex = 1
    /\ scan.w[1].pc = "count"
    /\ scan.w[2].pc = "read"
    /\ scan.acc_mutex = 0
    /\ DOMAIN scan.acc # {}

\* C16 as stated: a scan of an existing directory eventually returns Ok with
\* the result built from the files that are not bad, the counter has reached
\* the total and the final per-file progress event has been emitted.
C16_RunsToCompletion ==
    (call.fn \in {"scan_labels", "scan_counts"} /\ call.exists) ~>
        /\ ScanReturned(FoldCounts(call.dir))
        /\ scan.processed = scan.total
        /\ scan.total > 0 => scan.total \in Range(FileEvents)

\* C16: a scan of an existing directory eventually returns Ok with the
\* result built from the files that are not bad; when a progress emitter is
\* given, a bad file still counts as a completed file, so the counter reaches
\* the total and the final per-file progress event is emitted.
C16_RunsToCompletionWithEmitter ==
    (call.fn \in {"scan_labels", "scan_counts"} /\ call.exists) ~>
        /\ ScanReturned(FoldCounts(call.dir))
        /\ call.progress =>
              /\ scan.processed = scan.total
              /\ scan.total > 0 => scan.total \in Range(FileEvents)

\* C16 witness: a scan with an emitter over 99 plain files and one bad file
\* has returned Ok with cat counted 99 times, the counter at 100 and the
\* event for 100 emitted.
C16_Witness ==
    /\ call.fn = "scan_counts"
    /\ call.progress
    /\ call.dir = [plain |-> Cadence - 1, pair |-> 0, bad |-> 1, loose |-> 0]
    /\ ret.done
    /\ ret.val = Ok([l \in {"cat"} |-> Cadence - 1])
    /\ scan.processed = Cadence
    /\ FileEvents = <<Cadence>>

\* C21: a shape that the label-format writer accepts yields one line: in bbox
\* mode the class id and exactly 4 numbers whatever the number of points; in
\* polygon mode the class id and exactly 2 * points.len() numbers, except
\* that under Bbox2Point the 2 points are expanded to 4 corners, so 8
\* numbers.  A line is emitted only for a shape with a valid point count,
\* in polygon mode for every such shape, and in bbox mode for every such
\* shape except those recorded as ZeroArea.
C21_LineLength ==
    (ret.done /\ call.fn = "yolo_shapes" /\ call.shape.label = "cat") =>
        LET n == Len(call.shape.points)
            valid == ExpectedValidation(n, call.input_format).ok
            lines == ret.val.yolo_lines
        IN /\ Len(lines) <= 1
           /\ lines # <<>> => valid
           /\ (valid /\ call.format = "Polygon") => lines # <<>>
           /\ (valid /\ call.format = "Bbox" /\ lines = <<>>) =>
                 /\ Len(ret.val.invalid_annotations) = 1
                 /\ ret.val.invalid_annotations[1].reason = ZeroArea
           /\ lines # <<>> =>
                 /\ lines[1].class_id = 0
                 /\ Len(lines[1].nums) =
                       IF call.format = "Bbox" THEN 4
                       ELSE IF call.input_format = "Bbox2Point" THEN 8
                       ELSE 2 * n

\* C21 witness: in polygon mode under Bbox2Point a two-point rectangle gave
\* a line of 8 numbers, and in bbox mode a pentagon gave a line of 4.
C21_Witness ==
    /\ ret.done
    /\ call.fn = "yolo_shapes"
    /\ call.shape.label = "cat"
    /\ ret.val.yolo_lines # <<>>
    /\ \/ /\ call.format = "Polygon"
          /\ call.input_format = "Bbox2Point"
          /\ call.shape.points = Rect
          /\ Len(ret.val.yolo_lines[1].nums) = 8
       \/ /\ call.format = "Bbox"
          /\ call.shape.points = Pentagon
          /\ Len(ret.val.yolo_lines[1].nums) = 4

\* C22: the test image and label directories exist only when test_size > 0;
\* when test_size = 0 no file is assigned to the test split and nothing lies
\* in a test directory; every image and label file of the output lies in a
\* directory that setup created, and what a handled file wrote went to the
\* directories of the split its image path determines.
C22_TestSplit ==
    /\ (ImagesDir("test") \in outfs.dirs \/ LabelsDir("test") \in outfs.dirs) =>
          cfg.test_size > 0
    /\ cfg.test_size = 0 =>
          /\ \A i \in DOMAIN log : "test" \notin log[i].placed
          /\ \A x \in outfs.images \cup outfs.labels : x.dir.split # "test"
    /\ \A x \in outfs.images \cup outfs.labels : x.dir \in outfs.dirs
    /\ cfg.output_format # "LabelMe" =>
          \A i \in DOMAIN log : \A sp \in log[i].placed :
             /\ sp = SplitOfPath(log[i].key, cfg.val_size, cfg.test_size)
             /\ ImagesDir(sp) \in outfs.dirs
             /\ cfg.output_format = "Yolo" => LabelsDir(sp) \in outfs.dirs

\* C22 witness: a label-format run with test_size = 0 has handled two files,
\* one went to val and one to train, and no test directory exists.
C22_Witness ==
    /\ cfg.output_format = "Yolo"
    /\ cfg.test_size = 0
    /\ Len(log) = 2
    /\ \E i, j \in DOMAIN log : log[i].placed = {"val"} /\ log[j].placed = {"train"}
    /\ LabelsDir("test") \notin outfs.dirs
    /\ ImagesDir("test") \notin outfs.dirs
    /\ outfs.labels # {}

\* C23: the analysis of a directory without JSON files returns total_files
\* = 0, format Unknown, confidence 0 and the description that no JSON file
\* was found; the analysis of files none of which yields a shape returns
\* Unknown with confidence 0 and the description that no annotation was
\* found; both return an analysis, no error.
C23_EmptyInput ==
    (ret.done /\ call.fn = "analyze_dataset_with_config") =>
        LET a == ret.val.analysis
            files_ == call.json_files
        IN /\ files_ = <<>> =>
                 /\ a.total_files = 0
                 /\ a.sample_files = 0
                 /\ a.input_format = "Unknown"
                 /\ a.confidence = <<0, 1>>
                 /\ a.format_description = "no JSON files"
                 /\ ret.val.reads = 0
           /\ (files_ # <<>> /\ \A i \in DOMAIN files_ :
                                   ~files_[i].readable \/ files_[i].shapes = <<>>) =>
                 /\ a.total_files = Len(files_)
                 /\ a.input_format = "Unknown"
                 /\ a.confidence = <<0, 1>>
                 /\ a.sample_annotations = 0
                 /\ a.format_description = "no annotations found"

\* C23 witness: an empty file list was analysed, or a list of an unreadable
\* file and a file without shapes, and the result is Unknown.
C23_Witness ==
    /\ ret.done
    /\ call.fn = "analyze_dataset_with_config"
    /\ ret.val.analysis.input_format = "Unknown"
    /\ \/ call.json_files = <<>>
       \/ /\ Len(call.json_files) = 2
          /\ ~call.json_files[1].readable
          /\ call.json_files[2].shapes = <<>>
          /\ ret.val.analysis.total_files = 2

\* the shapes the readable files among the first k files hold
RECURSIVE ShapesUpTo(_, _)
ShapesUpTo(fs, k) ==
    IF k = 0 THEN 0
    ELSE ShapesUpTo(fs, k - 1) + (IF fs[k].readable THEN Len(fs[k].shapes) ELSE 0)

\* C24: the analysis reads at most max_sample_files files and no file after
\* the one with which the shapes collected reach max_sample_annotations; the
\* histogram is built over at most max_sample_annotations shapes;
\* sample_annotations is the sum of the histogram counts and at most
\* max_sample_annotations; sample_files is at most min(total_files,
\* max_sample_files).
C24_SamplingBounds ==
    (ret.done /\ call.fn = "analyze_dataset_with_config") =>
        LET a == ret.val.analysis
            fs == call.json_files
            c == call.config
            limit == Min(Len(fs), c.max_sample_files)
            enough == {k \in 1..limit : ShapesUpTo(fs, k) >= c.max_sample_annotations}
        IN /\ ret.val.reads <= c.max_sample_files
           /\ ret.val.reads <= Len(fs)
           /\ ret.val.reads = IF enough = {} THEN limit ELSE Min(limit, MinOf(enough))
           /\ a.sample_annotations =
                 SumOver(a.points_distribution, DOMAIN a.points_distribution)
           /\ a.sample_annotations <= c.max_sample_annotations
           /\ a.sample_annotations = Min(ShapesUpTo(fs, ret.val.reads),
                                         c.max_sample_annotations)
           /\ a.sample_files <= limit
           /\ a.total_files = Len(fs)

\* C24 witness: the analysis stopped reading before max_sample_files was
\* reached and left shapes it had collected out of the histogram.
C24_Witness ==
    /\ ret.done
    /\ call.fn = "analyze_dataset_with_config"
    /\ Len(call.json_files) = 3
    /\ call.config.max_sample_files = 3
    /\ ret.val.reads = 2
    /\ ShapesUpTo(call.json_files, 2) = 4
    /\ ret.val.analysis.sample_annotations = 2

\* C25: after any sequence of recorded events invalid_annotations holds at
\* most 100 records, the first 100 recorded in their order; background_files
\* holds at most 100 names, the first 100 in their order, while
\* background_images counts every background image; a record past the cap
\* changes no counter.
C25_CappedSamples ==
    call.fn = "record" =>
        LET st == ctx.stats IN
        /\ Len(st.invalid_annotations) = Min(idx, 100)
        /\ \A k \in DOMAIN st.invalid_annotations : st.invalid_annotations[k].file = k
        /\ Len(st.background_files) = Min(io, 100)
        /\ \A k \in DOMAIN st.background_files : st.background_files[k] = k
        /\ st.background_images = io
        /\ [st EXCEPT !.invalid_annotations = <<>>, !.background_files = <<>>,
                      !.background_images = 0] = NewStats

\* C25 witness: 102 invalid records and 101 background images were recorded;
\* 100 of each are held and background_images is 101.
C25_Witness ==
    /\ call.fn = "record"
    /\ idx = 102
    /\ io = 101
    /\ Len(ctx.stats.invalid_annotations) = 100
    /\ ctx.stats.invalid_annotations[100].file = 100
    /\ Len(ctx.stats.background_files) = 100
    /\ ctx.stats.background_images = 101

\* the stem of the name an image file of the output carries: the source's
\* stem, with the numeric suffix generate_unique_path gave the copy
OutputStem(i) == IF i.n = 0 THEN <<i.stem>> ELSE <<i.stem, i.n>>

\* C26: after a label-format run, in every split each image file of
\* images/<split> has exactly one label file of the same stem in
\* labels/<split>, written from the annotation file that refers to that
\* image; also when two JSON files refer to images of the same file name.
\* Stated for runs without background images and without a failing copy or
\* write.
C26_Paired ==
    (cfg.output_format = "Yolo" /\ ~cfg.include_background /\ pc = "done"
        /\ \A e \in DOMAIN log : log[e].fault = "none") =>
        \A i \in outfs.images :
           /\ Cardinality({l \in outfs.labels :
                              /\ l.dir = LabelsDir(i.dir.split)
                              /\ <<l.stem>> = OutputStem(i)}) = 1
           /\ \A l \in outfs.labels :
                 (l.dir = LabelsDir(i.dir.split) /\ <<l.stem>> = OutputStem(i)) =>
                    \E j \in DOMAIN files :
                       /\ l.by = files[j].json
                       /\ \/ i.src = resolve_image_path(files[j].json, files[j].image_path)
                          \/ /\ i.src.dir = "embedded"
                             /\ files[j].image_data # "none"

\* C27: at every point of a run the ids of the label map are pairwise
\* distinct and are exactly 0..n-1 for the n labels of the map, under every
\* label policy and label_list, a list that repeats a label included.
C27_Numbering ==
    LET m == ctx.label_map IN
    /\ \A a, b \in DOMAIN m : a # b => m[a] # m[b]
    /\ {m[l] : l \in DOMAIN m} = 0..(Cardinality(DOMAIN m) - 1)

\* C28: under the incremental label policy a file whose processing fails
\* leaves the label map as it was: every label of the map occurs in a file
\* that was processed successfully, so a label that occurs only in failed
\* files has no id and is not in labels_found.  Stated for runs in which no
\* copy and no write fails, where a file fails for its missing image.
C28_FailedFileKeepsLabelMap ==
    (cfg.label_list = <<>> /\ ~cfg.deterministic_labels
        /\ \A e \in DOMAIN log : log[e].fault = "none") =>
        \A l \in DOMAIN ctx.label_map \cup ctx.stats.labels_found :
           \E e \in DOMAIN log :
              /\ log[e].ok
              /\ \E k \in DOMAIN files[log[e].file].shapes :
                    files[log[e].file].shapes[k].label = l

\* C29: for every file that was processed successfully and was not a
\* duplicate, the annotations counted as converted plus the annotations
\* counted as skipped are the shapes of the file, in each of the three
\* pipelines.
C29_Accounting ==
    \A e \in DOMAIN log :
       (log[e].processed = 1 /\ ~log[e].duplicate) =>
          log[e].annotations + log[e].skipped = Len(files[log[e].file].shapes)

====
